---- MODULE Spec2Model ----
(***************************************************************************)
(* BBox Studio: the browser-local storage layer (api.ts over IndexedDB),   *)
(* the zip exporter, and the page handlers of ImagesPage, AnnotatePage and *)
(* ProjectList.                                                            *)
(*                                                                         *)
(* Strings the code processes (class lists, file names, localStorage keys, *)
(* exported text files) are sequences of one-character strings, so that    *)
(* split / trim / join / startsWith / regex replacement are computed.      *)
(* Strings the code only stores and returns (names, descriptions, error    *)
(* messages) are TLA+ strings.                                             *)
(***************************************************************************)
EXTENDS Integers, Sequences, FiniteSets, TLC

\* ------------------------------------------------------------------ bounds
MaxProjects == 2        \* keys the projects key generator may hand out
MaxImages == 2          \* keys the images key generator may hand out
MaxAnnotations == 2     \* keys the annotations key generator may hand out
MaxClock == 1           \* last millisecond of the modelled clock
MaxPending == 1         \* storage calls of AnnotatePage that may be in flight
MaxPan == 1             \* pointer steps the view may be panned by
MaxZoom == 1            \* presses of Zoom in or Zoom out away from zoom 1
MaxBoxes == 2           \* boxes handed to hitTestBoxIndex
MaxShown == 7           \* images ImagesPage shows for selecting
MaxEntries == 2         \* entries of the short lists given to parseImageIds

\* --------------------------------------------------------- program constants
DB_VERSION == 1
STORE_PROJECTS == "projects"
STORE_IMAGES == "images"
STORE_ANNOTATIONS == "annotations"

\* JavaScript's undefined and null, as values of an optional string field.
Undefined == "undefined"
Null == "null"
\* undefined where the field, when given, is a sequence of characters
UndefinedText == <<"undefined">>

\* a ?? b
Coalesce(a, b) == IF a = Undefined \/ a = Null THEN b ELSE a

\* ------------------------------------------------------------ string helpers
Whitespace == {" "}

\* String.prototype.split(sep) for a one-character separator
RECURSIVE Split(_, _)
Split(s, sep) ==
  IF \A i \in 1..Len(s) : s[i] # sep
    THEN <<s>>
    ELSE LET i == CHOOSE k \in 1..Len(s) :
                    s[k] = sep /\ \A j \in 1..(k - 1) : s[j] # sep
         IN <<SubSeq(s, 1, i - 1)>> \o Split(SubSeq(s, i + 1, Len(s)), sep)

RECURSIVE TrimStart(_)
TrimStart(s) ==
  IF s # <<>> /\ Head(s) \in Whitespace THEN TrimStart(Tail(s)) ELSE s

RECURSIVE TrimEnd(_)
TrimEnd(s) ==
  IF s # <<>> /\ s[Len(s)] \in Whitespace
    THEN TrimEnd(SubSeq(s, 1, Len(s) - 1))
    ELSE s

\* String.prototype.trim()
Trim(s) == TrimEnd(TrimStart(s))

\* Array.prototype.join(sep)
RECURSIVE Join(_, _)
Join(list, sep) ==
  IF list = <<>> THEN <<>>
  ELSE IF Len(list) = 1 THEN list[1]
  ELSE list[1] \o sep \o Join(Tail(list), sep)

\* .map((c) => c.trim()).filter(Boolean)
TrimmedNonEmpty(list) ==
  SelectSeq([i \in 1..Len(list) |-> Trim(list[i])], LAMBDA c : c # <<>>)

\* String.prototype.startsWith(prefix)
StartsWith(s, prefix) ==
  Len(s) >= Len(prefix) /\ SubSeq(s, 1, Len(prefix)) = prefix

\* String.prototype.endsWith(suffix)
EndsWith(s, suffix) ==
  Len(s) >= Len(suffix) /\ SubSeq(s, Len(s) - Len(suffix) + 1, Len(s)) = suffix

normalizeClassesString(value) ==
  Join(TrimmedNonEmpty(Split(value, ",")), <<",">>)

\* --------------------------------------------------------------- the stores
\* An object store is a function from its keys (keyPath "id") to its records.
EmptyStore == [k \in {} |-> 0]

Put(store, key, rec) ==
  [k \in DOMAIN store \cup {key} |-> IF k = key THEN rec ELSE store[k]]

Delete(store, key) == [k \in DOMAIN store \ {key} |-> store[k]]

\* the keys of S in ascending order: the order of getAll()
RECURSIVE Ascending(_)
Ascending(S) ==
  IF S = {} THEN <<>>
  ELSE LET m == CHOOSE x \in S : \A y \in S : x <= y
       IN <<m>> \o Ascending(S \ {m})

\* store.getAll()
GetAll(store) ==
  LET keys == Ascending(DOMAIN store)
  IN [i \in 1..Len(keys) |-> store[keys[i]]]

\* store.index(field).getAll(IDBKeyRange.only(value))
IndexGetAll(store, field, value) ==
  LET keys == Ascending({k \in DOMAIN store : store[k][field] = value})
  IN [i \in 1..Len(keys) |-> store[keys[i]]]

Range(seq) == {seq[i] : i \in 1..Len(seq)}

VARIABLES
  dbPromise,         \* api.ts module variable: "null" or "open"
  dbVersion,         \* version of the database "bbox-studio"; 0 when absent
  objectStoreNames,  \* the object stores the database holds
  projects,          \* object store "projects"
  images,            \* object store "images"
  annotations,       \* object store "annotations"
  nextKey,           \* the key generators of the three stores
  deletePending,     \* a deleteDatabase request waits for other connections
  otherTab,          \* another tab holds a connection to the database
  localStorage,      \* the keys of window.localStorage, in key(i) order
  now,               \* the clock read by nowIso()
  page,              \* the state of the mounted AnnotatePage component
  pending,           \* the api calls AnnotatePage handlers await, in the
                     \* order their transactions were created
  imagesPage,        \* the state of the mounted ImagesPage component
  ret,               \* the last step: the call or handler that ran and its
                     \* outcome, or the step the environment took
  before             \* what was stored and shown when that step began

storeVars == <<dbPromise, dbVersion, objectStoreNames, projects, images,
               annotations, nextKey, deletePending, otherTab>>

uiVars == <<page, pending, imagesPage>>

vars == <<dbPromise, dbVersion, objectStoreNames, projects, images,
          annotations, nextKey, deletePending, otherTab, localStorage, now,
          page, pending, imagesPage, ret, before>>

\* what a step starts from
Snapshot ==
  [projects |-> projects, images |-> images, annotations |-> annotations,
   localStorage |-> localStorage, deletePending |-> deletePending,
   page |-> page, pending |-> pending, imagesPage |-> imagesPage]

\* ------------------------------------------------------------------ getDb
AllStores == {STORE_PROJECTS, STORE_IMAGES, STORE_ANNOTATIONS}

\* the upgrade callback handed to openDb: create each store that is missing
onUpgrade(names) ==
  names \cup (IF STORE_PROJECTS \in names THEN {} ELSE {STORE_PROJECTS})
        \cup (IF STORE_IMAGES \in names THEN {} ELSE {STORE_IMAGES})
        \cup (IF STORE_ANNOTATIONS \in names THEN {} ELSE {STORE_ANNOTATIONS})

\* An open request is queued behind a pending deleteDatabase request.
getDbReady == ~deletePending

\* getDb() resolved: the connection is open; a database older than DB_VERSION
\* (or absent, version 0) was upgraded first.
getDb ==
  /\ dbPromise' = "open"
  /\ dbVersion' = IF dbPromise = "null" /\ dbVersion < DB_VERSION
                    THEN DB_VERSION ELSE dbVersion
  /\ objectStoreNames' = IF dbPromise = "null" /\ dbVersion < DB_VERSION
                           THEN onUpgrade(objectStoreNames)
                           ELSE objectStoreNames

Settled(op, arg, ok, data) == [op |-> op, arg |-> arg, ok |-> ok, data |-> data]

\* --------------------------------------------------------------- projects
\* const { root_handle: _root, ...rest } = p
StripHandle(p) ==
  [id |-> p.id, name |-> p.name, description |-> p.description,
   classes |-> p.classes, created_at |-> p.created_at,
   updated_at |-> p.updated_at]

\* Array.prototype.sort by created_at, newest first (the sort is stable)
RECURSIVE InsertNewestFirst(_, _)
InsertNewestFirst(sorted, x) ==
  IF sorted = <<>> THEN <<x>>
  ELSE IF Head(sorted).created_at >= x.created_at
    THEN <<Head(sorted)>> \o InsertNewestFirst(Tail(sorted), x)
    ELSE <<x>> \o sorted

RECURSIVE SortNewestFirst(_)
SortNewestFirst(seq) ==
  IF seq = <<>> THEN <<>>
  ELSE InsertNewestFirst(SortNewestFirst(SubSeq(seq, 1, Len(seq) - 1)),
                         seq[Len(seq)])

\* what getProjects() resolves with
getProjectsResult ==
  LET items == GetAll(projects)
  IN SortNewestFirst([i \in 1..Len(items) |-> StripHandle(items[i])])

\* what getProject(id) settles with
getProjectResult(id) ==
  IF id \in DOMAIN projects
    THEN [ok |-> TRUE, data |-> StripHandle(projects[id])]
    ELSE [ok |-> FALSE, data |-> "Project not found"]

getProjects ==
  /\ getDbReady /\ getDb
  /\ before' = Snapshot
  /\ ret' = Settled("getProjects", 0, TRUE, getProjectsResult)
  /\ UNCHANGED uiVars
  /\ UNCHANGED <<projects, images, annotations, nextKey, deletePending,
                 otherTab, localStorage, now>>

getProject(id) ==
  /\ getDbReady /\ getDb
  /\ before' = Snapshot
  /\ ret' = Settled("getProject", id, getProjectResult(id).ok,
                    getProjectResult(id).data)
  /\ UNCHANGED uiVars
  /\ UNCHANGED <<projects, images, annotations, nextKey, deletePending,
                 otherTab, localStorage, now>>

\* createProjectRecord with the class list stored as typed
createProjectRecordRaw(data) ==
  [id |-> nextKey.projects,
   name |-> data.name,
   description |-> Coalesce(data.description, Null),
   classes |-> data.classes,
   created_at |-> now,
   updated_at |-> now,
   root_handle |-> Null]

\* the record createProject adds for `data`
createProjectRecord(data) ==
  [id |-> nextKey.projects,
   name |-> data.name,
   description |-> Coalesce(data.description, Null),
   classes |-> normalizeClassesString(data.classes),
   created_at |-> now,
   updated_at |-> now,
   root_handle |-> Null]

createProject(data) ==
  /\ getDbReady /\ getDb
  /\ nextKey.projects <= MaxProjects
  /\ projects' = Put(projects, nextKey.projects, createProjectRecord(data))
  /\ nextKey' = [nextKey EXCEPT !.projects = @ + 1]
  /\ before' = Snapshot
  /\ ret' = Settled("createProject", data, TRUE,
                    StripHandle(createProjectRecord(data)))
  /\ UNCHANGED uiVars
  /\ UNCHANGED <<images, annotations, deletePending, otherTab, localStorage,
                 now>>

\* the record updateProject puts for `data` over `existing`
updateProjectRecord(existing, data) ==
  [existing EXCEPT
     !.name = Coalesce(data.name, existing.name),
     !.description = IF data.description = Undefined
                       THEN existing.description ELSE data.description,
     !.classes = IF data.classes = UndefinedText
                   THEN existing.classes
                   ELSE normalizeClassesString(data.classes),
     !.updated_at = now]

updateProject(id, data) ==
  /\ getDbReady /\ getDb
  /\ IF id \in DOMAIN projects
       THEN /\ projects' = Put(projects, id,
                               updateProjectRecord(projects[id], data))
            /\ before' = Snapshot
            /\ ret' = Settled("updateProject", id, TRUE,
                       StripHandle(updateProjectRecord(projects[id], data)))
       ELSE /\ projects' = projects
            /\ before' = Snapshot
            /\ ret' = Settled("updateProject", id, FALSE, "Project not found")
  /\ UNCHANGED uiVars
  /\ UNCHANGED <<images, annotations, nextKey, deletePending, otherTab,
                 localStorage, now>>

\* for (const ann of anns) annStore.delete(ann.id)
RECURSIVE DeleteEach(_, _)
DeleteEach(store, recs) ==
  IF recs = <<>> THEN store
  ELSE DeleteEach(Delete(store, Head(recs).id), Tail(recs))

\* cascadeAnnotations with the loop over the images left out
cascadeAnnotationsSkipped(annStore, imgs) == annStore

\* the annotations store after the cascade over the images `imgs`
RECURSIVE cascadeAnnotations(_, _)
cascadeAnnotations(annStore, imgs) ==
  IF imgs = <<>> THEN annStore
  ELSE cascadeAnnotations(
         DeleteEach(annStore, IndexGetAll(annStore, "image_id", Head(imgs).id)),
         Tail(imgs))

\* the images store after the cascade for project `id`
cascadeImages(imageStore, id) ==
  DeleteEach(imageStore, IndexGetAll(imageStore, "project_id", id))

deleteProject(id) ==
  /\ getDbReady /\ getDb
  /\ projects' = Delete(projects, id)
  /\ images' = cascadeImages(images, id)
  /\ annotations' = cascadeAnnotations(annotations,
                                       IndexGetAll(images, "project_id", id))
  /\ before' = Snapshot
  /\ ret' = Settled("deleteProject", id, TRUE, "ok")
  /\ UNCHANGED uiVars
  /\ UNCHANGED <<nextKey, deletePending, otherTab, localStorage, now>>

\* ----------------------------------------------------------------- images
\* String.prototype.toLowerCase(), over the letters file names are made of
LowerChar(c) ==
  CASE c = "J" -> "j" [] c = "P" -> "p" [] c = "G" -> "g" [] c = "X" -> "x"
    [] OTHER -> c

toLowerCase(s) == [i \in 1..Len(s) |-> LowerChar(s[i])]

ImageExtensions ==
  { <<".", "j", "p", "g">>, <<".", "j", "p", "e", "g">>, <<".", "p", "n", "g">>,
    <<".", "w", "e", "b", "p">>, <<".", "g", "i", "f">>, <<".", "b", "m", "p">>,
    <<".", "a", "v", "i", "f">> }

isImageFilename(name) ==
  \E ext \in ImageExtensions : EndsWith(toLowerCase(name), ext)

\* the Image shape getImages maps a record to
ImageShape(im) ==
  [id |-> im.id, project_id |-> im.project_id, filename |-> im.filename,
   file_path |-> im.file_path, width |-> im.width, height |-> im.height,
   created_at |-> im.created_at]

\* what getImages(projectId) resolves with
getImagesResult(projectId) ==
  LET items == IndexGetAll(images, "project_id", projectId)
  IN SortNewestFirst([i \in 1..Len(items) |-> ImageShape(items[i])])

getImages(projectId) ==
  /\ getDbReady /\ getDb
  /\ before' = Snapshot
  /\ ret' = Settled("getImages", projectId, TRUE, getImagesResult(projectId))
  /\ UNCHANGED uiVars
  /\ UNCHANGED <<projects, images, annotations, nextKey, deletePending,
                 otherTab, localStorage, now>>

\* the files uploadImages keeps: those with a name that is an image file name
acceptedFiles(files) ==
  SelectSeq(files, LAMBDA f : f # <<>> /\ isImageFilename(f))

\* the record uploadImages adds for the i-th accepted file
uploadRecord(projectId, name, i) ==
  [id |-> nextKey.images + i - 1, project_id |-> projectId, filename |-> name,
   file_path |-> name, width |-> Null, height |-> Null, created_at |-> now,
   source |-> "blob"]

RECURSIVE AddEach(_, _)
AddEach(store, recs) ==
  IF recs = <<>> THEN store
  ELSE AddEach(Put(store, Head(recs).id, Head(recs)), Tail(recs))

uploadImages(projectId, files) ==
  LET kept == acceptedFiles(files)
      recs == [i \in 1..Len(kept) |-> uploadRecord(projectId, kept[i], i)]
  IN /\ getDbReady /\ getDb
     /\ nextKey.images + Len(kept) <= MaxImages + 1
     /\ images' = AddEach(images, recs)
     /\ nextKey' = [nextKey EXCEPT !.images = @ + Len(kept)]
     /\ before' = Snapshot
     /\ ret' = Settled("uploadImages", projectId, TRUE,
                       [i \in 1..Len(recs) |-> ImageShape(recs[i])])
     /\ UNCHANGED uiVars
     /\ UNCHANGED <<projects, annotations, deletePending, otherTab,
                    localStorage, now>>

\* ------------------------------------------------------------ annotations
\* what getAnnotations(imageId) resolves with
getAnnotationsResult(imageId) == IndexGetAll(annotations, "image_id", imageId)

getAnnotations(imageId) ==
  /\ getDbReady /\ getDb
  /\ before' = Snapshot
  /\ ret' = Settled("getAnnotations", imageId, TRUE,
                    getAnnotationsResult(imageId))
  /\ UNCHANGED uiVars
  /\ UNCHANGED <<projects, images, annotations, nextKey, deletePending,
                 otherTab, localStorage, now>>

\* createAnnotationRecord with width and height exchanged
createAnnotationRecordSwapped(imageId, data) ==
  [id |-> nextKey.annotations, image_id |-> imageId,
   class_id |-> data.class_id, x_center |-> data.x_center,
   y_center |-> data.y_center, width |-> data.height, height |-> data.width,
   created_at |-> now, updated_at |-> now]

\* the record createAnnotation adds
createAnnotationRecord(imageId, data) ==
  [id |-> nextKey.annotations, image_id |-> imageId,
   class_id |-> data.class_id, x_center |-> data.x_center,
   y_center |-> data.y_center, width |-> data.width, height |-> data.height,
   created_at |-> now, updated_at |-> now]

createAnnotation(imageId, data) ==
  /\ getDbReady /\ getDb
  /\ nextKey.annotations <= MaxAnnotations
  /\ annotations' = Put(annotations, nextKey.annotations,
                        createAnnotationRecord(imageId, data))
  /\ nextKey' = [nextKey EXCEPT !.annotations = @ + 1]
  /\ before' = Snapshot
  /\ ret' = Settled("createAnnotation", [image_id |-> imageId, data |-> data],
                    TRUE, createAnnotationRecord(imageId, data))
  /\ UNCHANGED uiVars
  /\ UNCHANGED <<projects, images, deletePending, otherTab, localStorage, now>>

updateAnnotationRecord(existing, data) ==
  [existing EXCEPT !.class_id = data.class_id, !.x_center = data.x_center,
                   !.y_center = data.y_center, !.width = data.width,
                   !.height = data.height, !.updated_at = now]

updateAnnotation(annotationId, data) ==
  /\ getDbReady /\ getDb
  /\ IF annotationId \in DOMAIN annotations
       THEN /\ annotations' =
                 Put(annotations, annotationId,
                     updateAnnotationRecord(annotations[annotationId], data))
            /\ before' = Snapshot
            /\ ret' = Settled("updateAnnotation", annotationId, TRUE,
                     updateAnnotationRecord(annotations[annotationId], data))
       ELSE /\ annotations' = annotations
            /\ before' = Snapshot
            /\ ret' = Settled("updateAnnotation", annotationId, FALSE,
                              "Annotation not found")
  /\ UNCHANGED uiVars
  /\ UNCHANGED <<projects, images, nextKey, deletePending, otherTab,
                 localStorage, now>>

deleteAnnotation(annotationId) ==
  /\ getDbReady /\ getDb
  /\ annotations' = Delete(annotations, annotationId)
  /\ before' = Snapshot
  /\ ret' = Settled("deleteAnnotation", annotationId, TRUE, "ok")
  /\ UNCHANGED uiVars
  /\ UNCHANGED <<projects, images, nextKey, deletePending, otherTab,
                 localStorage, now>>

\* ------------------------------------------------------------------ export
\* Coordinates are fixed-point: the number v is held as v * Unit.
Unit == 200

Digit(d) ==
  CASE d = 0 -> "0" [] d = 1 -> "1" [] d = 2 -> "2" [] d = 3 -> "3"
    [] d = 4 -> "4" [] d = 5 -> "5" [] d = 6 -> "6" [] d = 7 -> "7"
    [] d = 8 -> "8" [] d = 9 -> "9"

\* `${n}` for a natural number n
RECURSIVE NatToString(_)
NatToString(n) ==
  IF n < 10 THEN <<Digit(n)>>
  ELSE NatToString(n \div 10) \o <<Digit(n % 10)>>

RECURSIVE StripTrailingZeros(_)
StripTrailingZeros(s) ==
  IF s # <<>> /\ s[Len(s)] = "0"
    THEN StripTrailingZeros(SubSeq(s, 1, Len(s) - 1))
    ELSE s

\* `${v}` for the number v = n / Unit
NumberToString(n) ==
  LET a == IF n < 0 THEN 0 - n ELSE n
      thousandths == ((a % Unit) * 1000) \div Unit
      frac == StripTrailingZeros(<<Digit(thousandths \div 100),
                                   Digit((thousandths \div 10) % 10),
                                   Digit(thousandths % 10)>>)
  IN (IF n < 0 THEN <<"-">> ELSE <<>>)
       \o NatToString(a \div Unit)
       \o (IF frac = <<>> THEN <<>> ELSE <<".">> \o frac)

\* the last element of a non-empty array: .pop()
Last(seq) == seq[Len(seq)]

\* base.replace(/\.[^.]+$/, ""): drop a last dot that has text after it
stripExtension(base) ==
  LET dots == {i \in 1..Len(base) : base[i] = "."}
  IN IF dots = {} THEN base
     ELSE LET last == CHOOSE i \in dots : \A j \in dots : j <= i
          IN IF last < Len(base) THEN SubSeq(base, 1, last - 1) ELSE base

neurovaStem(filename) == stripExtension(Last(Split(filename, "/")))

LabelsDir == <<"l", "a", "b", "e", "l", "s", "/">>
TxtSuffix == <<".", "t", "x", "t">>
ClassesTxt == <<"c", "l", "a", "s", "s", "e", "s">> \o TxtSuffix

\* `labels/${neurovaStem(img.filename)}.txt`
labelPath(img) == LabelsDir \o neurovaStem(img.filename) \o TxtSuffix

\* `${a.class_id} ${a.x_center} ${a.y_center} ${a.width} ${a.height}`
labelLine(a) ==
  NatToString(a.class_id) \o <<" ">> \o NumberToString(a.x_center) \o <<" ">>
    \o NumberToString(a.y_center) \o <<" ">> \o NumberToString(a.width)
    \o <<" ">> \o NumberToString(a.height)

\* lines.join("\n") + "\n"
labelText(anns) ==
  Join([i \in 1..Len(anns) |-> labelLine(anns[i])], <<"\n">>) \o <<"\n">>

\* zip.file(path, text): an entry of that path is replaced
zipFile(zip, path, text) == Put(zip, path, text)

\* for (const img of images.data) { ... zip.file(...) }
RECURSIVE exportLabels(_, _)
exportLabels(zip, imgs) ==
  IF imgs = <<>> THEN zip
  ELSE LET anns == getAnnotationsResult(Head(imgs).id)
       IN exportLabels(IF anns = <<>> THEN zip
                       ELSE zipFile(zip, labelPath(Head(imgs)), labelText(anns)),
                       Tail(imgs))

\* classesText without the newline that ends the last line
classesTextUnterminated(classes) == Join(classes, <<"\n">>)

\* classes.join("\n") + (classes.length ? "\n" : "")
classesText(classes) ==
  Join(classes, <<"\n">>) \o (IF classes # <<>> THEN <<"\n">> ELSE <<>>)

\* normalizeClassesString(project.classes).split(",").filter(Boolean)
exportClasses(project) ==
  SelectSeq(Split(normalizeClassesString(project.classes), ","),
            LAMBDA c : c # <<>>)

\* the files of the zip exportNeurova builds for a project that exists
exportZip(projectId) ==
  exportLabels(zipFile(EmptyStore, ClassesTxt,
                       classesText(exportClasses(projects[projectId]))),
               getImagesResult(projectId))

exportNeurova(projectId) ==
  /\ getDbReady /\ getDb
  /\ before' = Snapshot
  /\ ret' = IF projectId \in DOMAIN projects
              THEN Settled("exportNeurova", projectId, TRUE,
                           exportZip(projectId))
              ELSE Settled("exportNeurova", projectId, FALSE,
                           "Project not found")
  /\ UNCHANGED uiVars
  /\ UNCHANGED <<projects, images, annotations, nextKey, deletePending,
                 otherTab, localStorage, now>>

\* ------------------------------------------------------- clearAllLocalData
KeyPrefix == <<"b", "b", "o", "x", "s", "t", "u", "d", "i", "o", ":">>

\* the loop over localStorage.key(i): the keys that start with the prefix
RECURSIVE keysToDelete(_, _)
keysToDelete(storage, i) ==
  IF i > Len(storage) THEN <<>>
  ELSE (IF StartsWith(storage[i], KeyPrefix) THEN <<storage[i]>> ELSE <<>>)
         \o keysToDelete(storage, i + 1)

\* localStorage.removeItem(k)
removeItem(storage, k) == SelectSeq(storage, LAMBDA x : x # k)

\* keysToDelete.forEach((k) => localStorage.removeItem(k))
RECURSIVE removeEach(_, _)
removeEach(storage, keys) ==
  IF keys = <<>> THEN storage
  ELSE removeEach(removeItem(storage, Head(keys)), Tail(keys))

clearStorageKeys(storage) == removeEach(storage, keysToDelete(storage, 1))

FreshKeys == [projects |-> 1, images |-> 1, annotations |-> 1]

\* the database "bbox-studio" deleted: no version, no stores, no records
DatabaseDeleted ==
  /\ dbVersion' = 0
  /\ objectStoreNames' = {}
  /\ projects' = EmptyStore
  /\ images' = EmptyStore
  /\ annotations' = EmptyStore
  /\ nextKey' = FreshKeys

\* the database as getDb() leaves it, untouched by the delete request
DatabaseKept ==
  /\ dbVersion' = IF dbPromise = "null" /\ dbVersion < DB_VERSION
                    THEN DB_VERSION ELSE dbVersion
  /\ objectStoreNames' = IF dbPromise = "null" /\ dbVersion < DB_VERSION
                           THEN onUpgrade(objectStoreNames)
                           ELSE objectStoreNames
  /\ UNCHANGED <<projects, images, annotations, nextKey>>

\* The delete request ends in one of its three events; each resolves.
\* onblocked fires when another connection stays open; the delete is then
\* carried out once that connection closes.
clearAllLocalData(outcome) ==
  /\ getDbReady
  /\ outcome \in (IF otherTab THEN {"blocked", "error"}
                  ELSE {"success", "error"})
  /\ dbPromise' = "null"
  /\ IF outcome = "success" THEN DatabaseDeleted ELSE DatabaseKept
  /\ deletePending' = (outcome = "blocked")
  /\ localStorage' = clearStorageKeys(localStorage)
  /\ before' = Snapshot
  /\ ret' = Settled("clearAllLocalData", outcome, TRUE, "ok")
  /\ UNCHANGED uiVars
  /\ UNCHANGED <<otherTab, now>>

\* ------------------------------------------------------------ environment
\* another tab of the application opens its connection
OtherTabOpens ==
  /\ ~otherTab /\ ~deletePending
  /\ otherTab' = TRUE
  /\ dbVersion' = IF dbVersion < DB_VERSION THEN DB_VERSION ELSE dbVersion
  /\ objectStoreNames' = IF dbVersion < DB_VERSION
                           THEN onUpgrade(objectStoreNames)
                           ELSE objectStoreNames
  /\ before' = Snapshot
  /\ ret' = Settled("otherTabOpens", 0, TRUE, "ok")
  /\ UNCHANGED uiVars
  /\ UNCHANGED <<dbPromise, projects, images, annotations, nextKey,
                 deletePending, localStorage, now>>

\* the other tab closes; a delete request that waited for it is carried out
OtherTabCloses ==
  /\ otherTab
  /\ otherTab' = FALSE
  /\ deletePending' = FALSE
  /\ IF deletePending
       THEN DatabaseDeleted
       ELSE UNCHANGED <<dbVersion, objectStoreNames, projects, images,
                        annotations, nextKey>>
  /\ before' = Snapshot
  /\ ret' = Settled("otherTabCloses", 0, TRUE, "ok")
  /\ UNCHANGED uiVars
  /\ UNCHANGED <<dbPromise, localStorage, now>>

\* localStorage.setItem(key, ...)
setItem(key) ==
  /\ localStorage' = IF key \in Range(localStorage) THEN localStorage
                     ELSE Append(localStorage, key)
  /\ before' = Snapshot
  /\ ret' = Settled("setItem", key, TRUE, "ok")
  /\ UNCHANGED uiVars
  /\ UNCHANGED <<dbPromise, dbVersion, objectStoreNames, projects, images,
                 annotations, nextKey, deletePending, otherTab, now>>

\* a millisecond passes
Tick ==
  /\ now < MaxClock
  /\ now' = now + 1
  /\ before' = Snapshot
  /\ ret' = Settled("tick", 0, TRUE, "ok")
  /\ UNCHANGED uiVars
  /\ UNCHANGED <<dbPromise, dbVersion, objectStoreNames, projects, images,
                 annotations, nextKey, deletePending, otherTab, localStorage>>

\* ------------------------------------------------------------ page state
\* an optional value: null, or the value
None == <<>>
Some(v) == <<v>>

\* AnnotatePage as it mounts for the route /projects/:projectId/annotate;
\* projectId 0 stands for no such page being mounted.  zoom counts the
\* factors of 1.2: the zoom is (6/5)^zoom.  keyBoxes is the `boxes` the
\* keydown listener closed over when its effect last ran.
AnnotatePageState(projectId) ==
  [projectId |-> projectId, project |-> None, images |-> <<>>,
   currentImageIndex |-> 0, boxes |-> <<>>, selectedClassId |-> 0,
   drawing |-> FALSE, drawStartPos |-> [x |-> 0, y |-> 0],
   currentBox |-> None, selectedBox |-> None, zoom |-> 0,
   pan |-> [x |-> 0, y |-> 0], isPanning |-> FALSE,
   panStartRef |-> [x |-> 0, y |-> 0],
   panPointerStartRef |-> [x |-> 0, y |-> 0],
   keyBoxes |-> <<>>]

\* ImagesPage as it mounts for the route /projects/:projectId/images
ImagesPageState(projectId) ==
  [projectId |-> projectId, project |-> None, images |-> <<>>,
   loading |-> TRUE, selectMode |-> FALSE, selectedIds |-> <<>>]

\* what a handler run showed the user: the messages of its alert() calls, and
\* the number of promises that rejected with nothing awaiting or catching them
Outcome(alerts, unhandled) == [alerts |-> alerts, unhandled |-> unhandled]

\* -------------------------------------------------- importImagesFromFolder
PickerMissing == "Folder import requires Chrome/Edge (File System Access API)"

\* walkDir: the paths of the folder's files that have an image file name
walkDir(entries) ==
  SelectSeq(entries, LAMBDA path : isImageFilename(Last(Split(path, "/"))))

\* the records the loop over walkDir adds, from key `key` on
RECURSIVE importRecords(_, _, _, _)
importRecords(projectId, paths, existingNames, key) ==
  IF paths = <<>> THEN <<>>
  ELSE IF Head(paths) \in existingNames
    THEN importRecords(projectId, Tail(paths), existingNames, key)
    ELSE <<[id |-> key, project_id |-> projectId, filename |-> Head(paths),
            file_path |-> Head(paths), width |-> Null, height |-> Null,
            created_at |-> now, source |-> "file_handle"]>>
           \o importRecords(projectId, Tail(paths),
                            existingNames \cup {Head(paths)}, key + 1)

\* importImagesFromFolder without the check of window.showDirectoryPicker:
\* calling the missing picker throws a TypeError
importImagesFromFolderUnchecked(projectId, pick) ==
  [status |-> "rejected",
   message |-> IF pick.picker = "missing" THEN "picker is not a function"
               ELSE "The user aborted a request.",
   projects |-> projects, images |-> images, nextImage |-> nextKey.images]

\* How importImagesFromFolder(projectId) ends for what the directory picker
\* does (`pick`), and the stores it leaves.  pick.transaction says whether the
\* readwrite transaction is still active when the directory iteration hands
\* over an entry: a transaction with no request pending commits as soon as
\* control returns to the event loop.  When it has committed, the first
\* store.add throws; with nothing to add, transactionDone waits for a
\* complete event that has already fired and the call never settles.
importImagesFromFolder(projectId, pick) ==
  LET same == [projects |-> projects, images |-> images,
               nextImage |-> nextKey.images]
      existing == IndexGetAll(images, "project_id", projectId)
      existingNames == {existing[i].filename : i \in 1..Len(existing)}
      recs == importRecords(projectId, walkDir(pick.entries), existingNames,
                            nextKey.images)
      withHandle ==
        Put(projects, projectId,
            [projects[projectId] EXCEPT !.root_handle = "dirHandle",
                                        !.updated_at = now])
  IN IF pick.picker = "missing"
       THEN [status |-> "rejected", message |-> PickerMissing] @@ same
     ELSE IF pick.picker = "cancelled"
       THEN [status |-> "rejected", message |-> "The user aborted a request."]
              @@ same
     ELSE IF projectId \notin DOMAIN projects
       THEN [status |-> "rejected", message |-> "Project not found"] @@ same
     ELSE IF pick.transaction = "committed" /\ recs # <<>>
       THEN [status |-> "rejected", message |-> "TransactionInactiveError",
             projects |-> withHandle, images |-> images,
             nextImage |-> nextKey.images]
     ELSE IF pick.transaction = "committed"
       THEN [status |-> "unsettled", message |-> "",
             projects |-> withHandle, images |-> images,
             nextImage |-> nextKey.images]
     ELSE [status |-> "resolved", message |-> "",
           projects |-> withHandle, images |-> AddEach(images, recs),
           nextImage |-> nextKey.images + Len(recs)]

\* How uploadImages(projectId, files) ends when the browser reports `storage`
\* for the writes: a failed store.add aborts the transaction, nothing is kept.
uploadOutcome(projectId, files, storage) ==
  LET kept == acceptedFiles(files)
      recs == [i \in 1..Len(kept) |-> uploadRecord(projectId, kept[i], i)]
  IN IF storage = "ok" \/ kept = <<>>
       THEN [status |-> "resolved", message |-> "",
             images |-> AddEach(images, recs),
             nextImage |-> nextKey.images + Len(kept)]
       ELSE [status |-> "rejected", message |-> storage,
             images |-> images, nextImage |-> nextKey.images]

\* ------------------------------------------------------------- ImagesPage
\* load(): setLoading(true), then both reads; the state setters after the
\* await run only when neither read rejected.  `imgs` is the image store the
\* reads see.
ImagesPage_loadState(p, imgs) ==
  LET items == IndexGetAll(imgs, "project_id", p.projectId)
      shapes == SortNewestFirst([i \in 1..Len(items) |-> ImageShape(items[i])])
  IN IF getProjectResult(p.projectId).ok
       THEN [p EXCEPT !.project = Some(getProjectResult(p.projectId).data),
                      !.images = shapes, !.loading = FALSE]
       ELSE [p EXCEPT !.loading = TRUE]

\* the page mounts for /projects/pid/images: useEffect calls load()
ImagesPage_load(pid) ==
  /\ getDbReady /\ getDb
  /\ imagesPage' = ImagesPage_loadState(ImagesPageState(pid), images)
  /\ before' = Snapshot
  /\ ret' = Settled("ImagesPage.load", pid, getProjectResult(pid).ok,
                    Outcome(<<>>, IF getProjectResult(pid).ok THEN 0 ELSE 1))
  /\ UNCHANGED <<projects, images, annotations, nextKey, deletePending,
                 otherTab, localStorage, now, page, pending>>

\* the file input changed: await uploadImages(pid, files); await load()
ImagesPage_handleUpload(files, storage) ==
  LET pid == imagesPage.projectId
      up == uploadOutcome(pid, files, storage)
      ok == up.status = "resolved" /\ getProjectResult(pid).ok
  IN /\ pid # 0
     /\ files # <<>>
     /\ getDbReady /\ getDb
     /\ up.nextImage <= MaxImages + 1
     /\ images' = up.images
     /\ nextKey' = [nextKey EXCEPT !.images = up.nextImage]
     /\ imagesPage' = IF up.status = "resolved"
                        THEN ImagesPage_loadState(imagesPage, up.images)
                        ELSE imagesPage
     /\ before' = Snapshot
     /\ ret' = Settled("ImagesPage.handleUpload", pid, ok,
                       Outcome(<<>>, IF ok THEN 0 ELSE 1))
     /\ UNCHANGED <<projects, annotations, deletePending, otherTab,
                    localStorage, now, page, pending>>

\* "Select folder": try { await importImagesFromFolder(pid); await load() }
\* catch (err) { alert(err.message) }
ImagesPage_handleSelectFolder(pick) ==
  LET pid == imagesPage.projectId
      imp == importImagesFromFolder(pid, pick)
      ok == imp.status # "rejected"
  IN /\ pid # 0
     /\ pick.picker = "chosen" => getDbReady
     /\ imp.nextImage <= MaxImages + 1
     /\ IF pick.picker = "chosen"
          THEN getDb
          ELSE UNCHANGED <<dbPromise, dbVersion, objectStoreNames>>
     /\ projects' = imp.projects
     /\ images' = imp.images
     /\ nextKey' = [nextKey EXCEPT !.images = imp.nextImage]
     /\ imagesPage' = IF imp.status = "resolved"
                        THEN ImagesPage_loadState(imagesPage, imp.images)
                        ELSE imagesPage
     /\ before' = Snapshot
     /\ ret' = Settled("ImagesPage.handleSelectFolder", pid, ok,
                       Outcome(IF ok THEN <<>> ELSE <<imp.message>>, 0))
     /\ UNCHANGED <<annotations, deletePending, otherTab, localStorage, now,
                    page, pending>>

\* ---------------------------------------------------- ImagesPage: selection
SelectionLimit == 6

\* the elements of a sequence of numbers, as a set: prev.includes
includes(seq, v) == \E i \in 1..Len(seq) : seq[i] = v

\* the updater of toggleSelected that takes one id more than the limit
toggleSelectedUpdaterOver(prev, imageId) ==
  IF includes(prev, imageId) THEN SelectSeq(prev, LAMBDA id : id # imageId)
  ELSE IF Len(prev) > SelectionLimit THEN prev
  ELSE Append(prev, imageId)

\* the updater toggleSelected hands to setSelectedIds
toggleSelectedUpdater(prev, imageId) ==
  IF includes(prev, imageId) THEN SelectSeq(prev, LAMBDA id : id # imageId)
  ELSE IF Len(prev) >= SelectionLimit THEN prev
  ELSE Append(prev, imageId)

\* the check button of a card: cards have it in select mode only
toggleSelected(imageId) ==
  /\ imagesPage.selectMode
  /\ \E i \in 1..Len(imagesPage.images) : imagesPage.images[i].id = imageId
  /\ imagesPage' = [imagesPage EXCEPT
                      !.selectedIds = toggleSelectedUpdater(@, imageId)]
  /\ before' = Snapshot
  /\ ret' = Settled("toggleSelected", imageId, TRUE, "ok")
  /\ UNCHANGED <<storeVars, localStorage, now, page, pending>>

\* the button of the selection pill, shown while something is selected
clearSelection ==
  /\ imagesPage.selectMode
  /\ Len(imagesPage.selectedIds) > 0
  /\ imagesPage' = [imagesPage EXCEPT !.selectedIds = <<>>]
  /\ before' = Snapshot
  /\ ret' = Settled("clearSelection", "", TRUE, "ok")
  /\ UNCHANGED <<storeVars, localStorage, now, page, pending>>

\* the Select / Done button: setSelectMode((v) => !v); clearSelection()
selectToggle ==
  /\ imagesPage.projectId # 0
  /\ imagesPage' = [imagesPage EXCEPT !.selectMode = ~@, !.selectedIds = <<>>]
  /\ before' = Snapshot
  /\ ret' = Settled("selectToggle", "", TRUE, "ok")
  /\ UNCHANGED <<storeVars, localStorage, now, page, pending>>

\* ---------------------------------------------------------- MultiViewPage
\* A JavaScript number: finite numbers are held in tenths, which is exact for
\* the numeric strings with at most one decimal that are parsed here.
Finite(tenths) == [kind |-> "finite", tenths |-> tenths]
NaN == [kind |-> "NaN", tenths |-> 0]
Infinite(sign) == [kind |-> "Infinity", tenths |-> sign]

IsDigit(c) == \E d \in 0..9 : Digit(d) = c
DigitValue(c) == CHOOSE d \in 0..9 : Digit(d) = c

\* the value of a sequence of decimal digits
RECURSIVE DigitsValue(_)
DigitsValue(s) ==
  IF s = <<>> THEN 0
  ELSE 10 * DigitsValue(SubSeq(s, 1, Len(s) - 1)) + DigitValue(s[Len(s)])

AllDigits(s) == \A i \in 1..Len(s) : IsDigit(s[i])

\* an unsigned decimal literal: digits, digits with a point and at most one
\* decimal, or a point and one decimal; NaN for any other text
UnsignedNumber(s) ==
  LET parts == Split(s, ".")
  IN IF Len(parts) = 1 /\ s # <<>> /\ AllDigits(s)
       THEN Finite(10 * DigitsValue(s))
     ELSE IF Len(parts) = 2 /\ parts[1] \o parts[2] # <<>>
               /\ AllDigits(parts[1]) /\ AllDigits(parts[2])
               /\ Len(parts[2]) <= 1
       THEN Finite(10 * DigitsValue(parts[1]) + DigitsValue(parts[2]))
     ELSE NaN

InfinityText == <<"I", "n", "f", "i", "n", "i", "t", "y">>

\* Number(s) for text without exponent, hexadecimal or a second decimal:
\* white space around it is dropped, the empty string is 0
Number(s) ==
  LET text == Trim(s)
      signed == text # <<>> /\ Head(text) \in {"+", "-"}
      sign == IF text # <<>> /\ Head(text) = "-" THEN 0 - 1 ELSE 1
      body == IF signed THEN Tail(text) ELSE text
  IN IF text = <<>> THEN Finite(0)
     ELSE IF body = InfinityText THEN Infinite(sign)
     ELSE IF UnsignedNumber(body).kind = "finite"
       THEN Finite(sign * UnsignedNumber(body).tenths)
     ELSE NaN

IdLimit == 6

\* the loop of parseImageIds that stops after one id more than the limit
RECURSIVE uniqueIdsOver(_, _)
uniqueIdsOver(ids, out) ==
  IF ids = <<>> THEN out
  ELSE LET next == IF includes(out, Head(ids)) THEN out
                   ELSE Append(out, Head(ids))
       IN IF Len(next) > IdLimit THEN next
          ELSE uniqueIdsOver(Tail(ids), next)

\* the loop of parseImageIds over the ids left, with `out` so far
RECURSIVE uniqueIds(_, _)
uniqueIds(ids, out) ==
  IF ids = <<>> THEN out
  ELSE LET next == IF includes(out, Head(ids)) THEN out
                   ELSE Append(out, Head(ids))
       IN IF Len(next) >= IdLimit THEN next
          ELSE uniqueIds(Tail(ids), next)

\* value.split(",").map((s) => Number(s.trim()))
\*   .filter((n) => Number.isFinite(n) && n > 0)
numbersOf(value) ==
  LET parts == Split(value, ",")
  IN SelectSeq([i \in 1..Len(parts) |-> Number(Trim(parts[i]))],
               LAMBDA n : n.kind = "finite" /\ n.tenths > 0)

\* what parseImageIds(value) returns; value is None for null, else Some(text)
parseImageIdsResult(value) ==
  IF value = None \/ value = Some(<<>>) THEN <<>>
  ELSE uniqueIds(numbersOf(value[1]), <<>>)

\* parseImageIds(value) is called
parseImageIds(value) ==
  /\ before' = Snapshot
  /\ ret' = Settled("parseImageIds", value, TRUE, parseImageIdsResult(value))
  /\ UNCHANGED <<storeVars, localStorage, now, uiVars>>

\* ----------------------------------------------------------- AnnotatePage
CanvasWidth == 800
CanvasHeight == 600

\* canvas.getBoundingClientRect(): the canvas laid out at its own size
Rect == [left |-> 0, top |-> 0, width |-> CanvasWidth, height |-> CanvasHeight]

\* the classes memo
classesOf(p) ==
  IF p.project = None THEN <<>>
  ELSE TrimmedNonEmpty(Split(p.project[1].classes, ","))

\* A render that follows a state change.  The keydown effect has the
\* dependencies [classes.length, selectedBox]: only when one of them changed
\* is the listener replaced by one that closes over the boxes of this render.
Render(old, new) ==
  IF new.selectedBox # old.selectedBox
       \/ Len(classesOf(new)) # Len(classesOf(old))
    THEN [new EXCEPT !.keyBoxes = new.boxes]
    ELSE new

\* res.data.map((ann) => ({ id, classId, x, y, width, height }))
toBox(ann) ==
  [id |-> ann.id, classId |-> ann.class_id,
   x |-> ann.x_center - (ann.width \div 2),
   y |-> ann.y_center - (ann.height \div 2),
   width |-> ann.width, height |-> ann.height]

\* loadImageAnnotations, reading the annotation store `anns`
loadImageAnnotations(p, anns) ==
  IF p.currentImageIndex >= Len(p.images) THEN p
  ELSE LET items == IndexGetAll(anns, "image_id",
                                p.images[p.currentImageIndex + 1].id)
       IN [p EXCEPT !.boxes = [i \in 1..Len(items) |-> toBox(items[i])]]

\* the effect with the dependencies [currentImageIndex, images]
imageEffect(p, anns) ==
  IF Len(p.images) > 0 THEN Render(p, loadImageAnnotations(p, anns)) ELSE p

\* loadProject() for a URL without imageId, reading the image store `imgs`:
\* the page after it; nothing is set when getProject rejects
loadProject(p, imgs) ==
  LET items == IndexGetAll(imgs, "project_id", p.projectId)
      shapes == SortNewestFirst([i \in 1..Len(items) |-> ImageShape(items[i])])
      loaded == Render(p, [p EXCEPT
                  !.project = Some(getProjectResult(p.projectId).data)])
  IN IF getProjectResult(p.projectId).ok
       THEN imageEffect([loaded EXCEPT !.images = shapes], annotations)
       ELSE p

\* the page mounts for /projects/pid/annotate: useEffect calls loadProject()
AnnotatePage_loadProject(pid) ==
  /\ getDbReady /\ getDb
  /\ pending = <<>>
  /\ page' = loadProject(AnnotatePageState(pid), images)
  /\ before' = Snapshot
  /\ ret' = Settled("AnnotatePage.loadProject", pid, getProjectResult(pid).ok,
                    Outcome(<<>>, IF getProjectResult(pid).ok THEN 0 ELSE 1))
  /\ UNCHANGED <<projects, images, annotations, nextKey, deletePending,
                 otherTab, localStorage, now, pending, imagesPage>>

\* the file input changed: await uploadImages(pid, files); loadProject()
AnnotatePage_handleFileUpload(files, storage) ==
  LET pid == page.projectId
      up == uploadOutcome(pid, files, storage)
      ok == up.status = "resolved" /\ getProjectResult(pid).ok
  IN /\ pid # 0
     /\ files # <<>>
     /\ getDbReady /\ getDb
     /\ pending = <<>>
     /\ up.nextImage <= MaxImages + 1
     /\ images' = up.images
     /\ nextKey' = [nextKey EXCEPT !.images = up.nextImage]
     /\ page' = IF up.status = "resolved"
                  THEN loadProject(page, up.images)
                  ELSE page
     /\ before' = Snapshot
     /\ ret' = Settled("AnnotatePage.handleFileUpload", pid, ok,
                       Outcome(<<>>, IF ok THEN 0 ELSE 1))
     /\ UNCHANGED <<projects, annotations, deletePending, otherTab,
                    localStorage, now, pending, imagesPage>>

\* "Select folder": try { await importImagesFromFolder(pid);
\* await loadProject() } catch (err) { alert(err.message) }
AnnotatePage_handleSelectFolder(pick) ==
  LET pid == page.projectId
      imp == importImagesFromFolder(pid, pick)
      ok == imp.status # "rejected"
  IN /\ pid # 0
     /\ pick.picker = "chosen" => getDbReady
     /\ pending = <<>>
     /\ imp.nextImage <= MaxImages + 1
     /\ IF pick.picker = "chosen"
          THEN getDb
          ELSE UNCHANGED <<dbPromise, dbVersion, objectStoreNames>>
     /\ projects' = imp.projects
     /\ images' = imp.images
     /\ nextKey' = [nextKey EXCEPT !.images = imp.nextImage]
     /\ page' = IF imp.status = "resolved"
                  THEN loadProject(page, imp.images)
                  ELSE page
     /\ before' = Snapshot
     /\ ret' = Settled("AnnotatePage.handleSelectFolder", pid, ok,
                       Outcome(IF ok THEN <<>> ELSE <<imp.message>>, 0))
     /\ UNCHANGED <<annotations, deletePending, otherTab, localStorage, now,
                    pending, imagesPage>>

\* ------------------------------------------------- AnnotatePage: the canvas
\* the canvas exists only while there is a current image
canvasShown(p) == p.currentImageIndex < Len(p.images)

RECURSIVE Power(_, _)
Power(b, n) == IF n = 0 THEN 1 ELSE b * Power(b, n - 1)

\* the zoom is zoomTimes(z) / zoomOver(z)
zoomTimes(z) == IF z >= 0 THEN Power(6, z) ELSE Power(5, 0 - z)
zoomOver(z) == IF z >= 0 THEN Power(5, z) ELSE Power(6, 0 - z)

\* Math.max(0, Math.min(1, v))
Clamp(v) == IF v < 0 THEN 0 ELSE IF v > Unit THEN Unit ELSE v

Min(a, b) == IF a < b THEN a ELSE b
Max(a, b) == IF a > b THEN a ELSE b
Abs(v) == IF v < 0 THEN 0 - v ELSE v

\* the pointer in canvas pixels: (e.clientX - rect.left) * scaleX
canvasPixel(e) ==
  [x |-> ((e.clientX - Rect.left) * CanvasWidth) \div Rect.width,
   y |-> ((e.clientY - Rect.top) * CanvasHeight) \div Rect.height]

\* (px - pan.x) / zoom / canvas.width, before it is clamped.  A point is
\* held to the hundredth of the image below it, which is two units, so that
\* the half of a width is a whole number of units.
imagePoint(p, e) ==
  [x |-> 2 * (((canvasPixel(e).x - p.pan.x) * zoomOver(p.zoom) * Unit)
                \div (2 * zoomTimes(p.zoom) * CanvasWidth)),
   y |-> 2 * (((canvasPixel(e).y - p.pan.y) * zoomOver(p.zoom) * Unit)
                \div (2 * zoomTimes(p.zoom) * CanvasHeight))]

getCanvasCoordinates(p, e) ==
  [x |-> Clamp(imagePoint(p, e).x), y |-> Clamp(imagePoint(p, e).y)]

\* the loop of hitTestBoxIndex, from index i down to 0 (boxes[i + 1] is the
\* code's boxes[i])
RECURSIVE hitTestFrom(_, _, _, _)
hitTestFrom(boxes, i, x, y) ==
  IF i < 0 THEN None
  ELSE LET b == boxes[i + 1]
           x1 == Min(b.x, b.x + b.width)
           y1 == Min(b.y, b.y + b.height)
           x2 == Max(b.x, b.x + b.width)
           y2 == Max(b.y, b.y + b.height)
       IN IF x >= x1 /\ x <= x2 /\ y >= y1 /\ y <= y2
            THEN Some(i)
            ELSE hitTestFrom(boxes, i - 1, x, y)

\* hitTestBoxIndex that walks the boxes from the first one up
RECURSIVE hitTestUpFrom(_, _, _, _)
hitTestUpFrom(boxes, i, x, y) ==
  IF i >= Len(boxes) THEN None
  ELSE LET b == boxes[i + 1]
           x1 == Min(b.x, b.x + b.width)
           y1 == Min(b.y, b.y + b.height)
           x2 == Max(b.x, b.x + b.width)
           y2 == Max(b.y, b.y + b.height)
       IN IF x >= x1 /\ x <= x2 /\ y >= y1 /\ y <= y2
            THEN Some(i)
            ELSE hitTestUpFrom(boxes, i + 1, x, y)

hitTestBoxIndexLowest(boxes, x, y) == hitTestUpFrom(boxes, 0, x, y)

hitTestBoxIndex(boxes, x, y) == hitTestFrom(boxes, Len(boxes) - 1, x, y)

\* handleMouseDown that also starts a drawing when it selects a box
mouseDownStateDrawsOver(p, e) ==
  LET pos == getCanvasCoordinates(p, e)
      hit == hitTestBoxIndex(p.boxes, pos.x, pos.y)
  IN IF e.shiftKey
       THEN [p EXCEPT !.isPanning = TRUE, !.panStartRef = p.pan,
                      !.panPointerStartRef = [x |-> e.clientX, y |-> e.clientY]]
     ELSE [p EXCEPT !.selectedBox = hit, !.drawing = TRUE,
                    !.drawStartPos = pos,
                    !.currentBox = Some([classId |-> p.selectedClassId,
                                         x |-> pos.x, y |-> pos.y,
                                         width |-> 0, height |-> 0])]

\* the state handleMouseDown(e) sets
mouseDownState(p, e) ==
  LET pos == getCanvasCoordinates(p, e)
      hit == hitTestBoxIndex(p.boxes, pos.x, pos.y)
  IN IF e.shiftKey
       THEN [p EXCEPT !.isPanning = TRUE, !.panStartRef = p.pan,
                      !.panPointerStartRef = [x |-> e.clientX, y |-> e.clientY]]
     ELSE IF hit # None
       THEN [p EXCEPT !.selectedBox = hit]
     ELSE [p EXCEPT !.selectedBox = None, !.drawing = TRUE,
                    !.drawStartPos = pos,
                    !.currentBox = Some([classId |-> p.selectedClassId,
                                         x |-> pos.x, y |-> pos.y,
                                         width |-> 0, height |-> 0])]

handleMouseDown(e) ==
  /\ canvasShown(page)
  /\ page' = Render(page, mouseDownState(page, e))
  /\ before' = Snapshot
  /\ ret' = Settled("handleMouseDown", e, TRUE, "ok")
  /\ UNCHANGED <<storeVars, localStorage, now, pending, imagesPage>>

\* the state handleMouseMove(e) sets
mouseMoveState(p, e) ==
  LET pos == getCanvasCoordinates(p, e)
  IN IF p.isPanning
       THEN [p EXCEPT !.pan =
               [x |-> p.panStartRef.x
                        + ((e.clientX - p.panPointerStartRef.x) * CanvasWidth)
                            \div Rect.width,
                y |-> p.panStartRef.y
                        + ((e.clientY - p.panPointerStartRef.y) * CanvasHeight)
                            \div Rect.height]]
     ELSE IF ~p.drawing \/ p.currentBox = None THEN p
     ELSE [p EXCEPT !.currentBox =
             Some([p.currentBox[1] EXCEPT !.width = pos.x - p.drawStartPos.x,
                                          !.height = pos.y - p.drawStartPos.y])]

handleMouseMove(e) ==
  /\ canvasShown(page)
  /\ page' = Render(page, mouseMoveState(page, e))
  /\ before' = Snapshot
  /\ ret' = Settled("handleMouseMove", e, TRUE, "ok")
  /\ UNCHANGED <<storeVars, localStorage, now, pending, imagesPage>>

\* Math.abs(v) > 0.01
overMinSize(v) == Abs(v) * 100 > Unit

\* normalizedBox that keeps the corner the drawing began at
normalizedBoxUnshifted(box) ==
  [classId |-> box.classId, x |-> box.x, y |-> box.y,
   width |-> Abs(box.width), height |-> Abs(box.height)]

normalizedBox(box) ==
  [classId |-> box.classId,
   x |-> IF box.width < 0 THEN box.x + box.width ELSE box.x,
   y |-> IF box.height < 0 THEN box.y + box.height ELSE box.y,
   width |-> Abs(box.width), height |-> Abs(box.height)]

\* the data handleMouseUp hands to createAnnotation
annotationOf(box) ==
  [class_id |-> box.classId,
   x_center |-> box.x + (box.width \div 2),
   y_center |-> box.y + (box.height \div 2),
   width |-> box.width, height |-> box.height]

\* the createAnnotation calls that have not settled
creating == SelectSeq(pending, LAMBDA c : c.call = "createAnnotation")

\* handleMouseUp that calls setDrawing(false) after its await, not before
handleMouseUpStillDrawing ==
  LET creates == /\ ~page.isPanning
                 /\ page.drawing /\ page.currentBox # None
                 /\ overMinSize(page.currentBox[1].width)
                 /\ overMinSize(page.currentBox[1].height)
      box == normalizedBox(page.currentBox[1])
  IN /\ canvasShown(page)
     /\ creates => /\ Len(pending) < MaxPending
                   /\ nextKey.annotations + Len(creating) <= MaxAnnotations
     /\ page' = IF page.isPanning
                  THEN Render(page, [page EXCEPT !.isPanning = FALSE])
                ELSE IF ~page.drawing \/ page.currentBox = None THEN page
                ELSE IF creates THEN page
                ELSE Render(page, [page EXCEPT !.drawing = FALSE,
                                               !.currentBox = None])
     /\ pending' = IF creates
                     THEN Append(pending,
                            [call |-> "createAnnotation",
                             image_id |-> page.images[page.currentImageIndex + 1].id,
                             box |-> box, boxes |-> page.boxes])
                     ELSE pending
     /\ before' = Snapshot
     /\ ret' = Settled("handleMouseUp", "", TRUE, "ok")
     /\ UNCHANGED <<storeVars, localStorage, now, imagesPage>>

\* handleMouseUp (also the canvas's onMouseLeave), up to its await: a box
\* that is large enough leaves a createAnnotation call pending, which holds
\* the boxes and the image of this render
handleMouseUp ==
  LET creates == /\ ~page.isPanning
                 /\ page.drawing /\ page.currentBox # None
                 /\ overMinSize(page.currentBox[1].width)
                 /\ overMinSize(page.currentBox[1].height)
      box == normalizedBox(page.currentBox[1])
  IN /\ canvasShown(page)
     /\ creates => /\ Len(pending) < MaxPending
                   /\ nextKey.annotations + Len(creating) <= MaxAnnotations
     /\ page' = IF page.isPanning
                  THEN Render(page, [page EXCEPT !.isPanning = FALSE])
                ELSE IF ~page.drawing \/ page.currentBox = None THEN page
                ELSE IF creates
                  THEN Render(page, [page EXCEPT !.drawing = FALSE])
                ELSE Render(page, [page EXCEPT !.drawing = FALSE,
                                               !.currentBox = None])
     /\ pending' = IF creates
                     THEN Append(pending,
                            [call |-> "createAnnotation",
                             image_id |-> page.images[page.currentImageIndex + 1].id,
                             box |-> box, boxes |-> page.boxes])
                     ELSE pending
     /\ before' = Snapshot
     /\ ret' = Settled("handleMouseUp", "", TRUE, "ok")
     /\ UNCHANGED <<storeVars, localStorage, now, imagesPage>>

\* the createAnnotation call of handleMouseUp resolves; the handler goes on:
\* setBoxes([...boxes, { ...normalizedBox, id }]); setCurrentBox(null)
handleMouseUpResumes ==
  LET call == Head(pending)
      rec == createAnnotationRecord(call.image_id, annotationOf(call.box))
      box == [id |-> rec.id, classId |-> call.box.classId, x |-> call.box.x,
              y |-> call.box.y, width |-> call.box.width,
              height |-> call.box.height]
  IN /\ pending # <<>>
     /\ call.call = "createAnnotation"
     /\ getDbReady /\ getDb
     /\ annotations' = Put(annotations, rec.id, rec)
     /\ nextKey' = [nextKey EXCEPT !.annotations = @ + 1]
     /\ page' = Render(page, [page EXCEPT !.boxes = Append(call.boxes, box),
                                          !.currentBox = None])
     /\ pending' = Tail(pending)
     /\ before' = Snapshot
     /\ ret' = Settled("handleMouseUp.createAnnotation", call.image_id, TRUE,
                       rec)
     /\ UNCHANGED <<projects, images, deletePending, otherTab, localStorage,
                    now, imagesPage>>

\* Number(e.key) for a key that names a digit 1..9; 0 for every other key
keyNumber(key) ==
  IF \E n \in 1..9 : Digit(n) = key
    THEN CHOOSE n \in 1..9 : Digit(n) = key
    ELSE 0

\* The keydown listener.  Delete and Backspace call the handleDeleteBox of
\* the render the listener was made in: its selectedBox is the current one,
\* its boxes are keyBoxes.  handleDeleteBoxAtIndex runs up to its await and
\* leaves a deleteAnnotation call pending.
onKeyDown(key) ==
  LET removes == /\ key \in {"Delete", "Backspace"}
                 /\ page.selectedBox # None
                 /\ page.selectedBox[1] < Len(page.keyBoxes)
      idx == keyNumber(key) - 1
      picks == /\ key \notin {"Delete", "Backspace"}
               /\ keyNumber(key) >= 1 /\ keyNumber(key) <= 9
               /\ idx < Len(classesOf(page))
  IN /\ page.projectId # 0
     /\ removes => Len(pending) < MaxPending
     /\ pending' = IF removes
                     THEN Append(pending,
                            [call |-> "deleteAnnotation",
                             idx |-> page.selectedBox[1],
                             id |-> page.keyBoxes[page.selectedBox[1] + 1].id])
                     ELSE pending
     /\ page' = IF picks
                  THEN Render(page, [page EXCEPT !.selectedClassId = idx])
                  ELSE page
     /\ before' = Snapshot
     /\ ret' = Settled("onKeyDown", key, TRUE, "ok")
     /\ UNCHANGED <<storeVars, localStorage, now, imagesPage>>

\* prev.filter((_, i) => i !== idx)
removeAt(boxes, idx) ==
  [i \in 1..(Len(boxes) - (IF idx < Len(boxes) THEN 1 ELSE 0)) |->
     IF i <= idx THEN boxes[i] ELSE boxes[i + 1]]

\* the updater handed to setSelectedBox
selectionAfterRemove(prevSel, idx) ==
  IF prevSel = None THEN None
  ELSE IF prevSel[1] = idx THEN None
  ELSE IF prevSel[1] > idx THEN Some(prevSel[1] - 1)
  ELSE prevSel

\* the deleteAnnotation call of handleDeleteBoxAtIndex resolves; the handler
\* goes on with its two functional updates
handleDeleteBoxAtIndexResumes ==
  LET call == Head(pending)
  IN /\ pending # <<>>
     /\ call.call = "deleteAnnotation"
     /\ getDbReady /\ getDb
     /\ annotations' = Delete(annotations, call.id)
     /\ page' = Render(page,
                  [page EXCEPT !.boxes = removeAt(@, call.idx),
                               !.selectedBox = selectionAfterRemove(@, call.idx)])
     /\ pending' = Tail(pending)
     /\ before' = Snapshot
     /\ ret' = Settled("handleDeleteBoxAtIndex.deleteAnnotation", call, TRUE,
                       "ok")
     /\ UNCHANGED <<projects, images, nextKey, deletePending, otherTab,
                    localStorage, now, imagesPage>>

\* an entry of the image list is clicked: setCurrentImageIndex(idx);
\* setSelectedBox(null); the effect reloads the boxes when the index changed
selectImage(idx) ==
  LET shown == Render(page, [page EXCEPT !.currentImageIndex = idx,
                                         !.selectedBox = None])
  IN /\ idx < Len(page.images)
     /\ getDbReady /\ getDb
     /\ pending = <<>>
     /\ page' = IF idx # page.currentImageIndex
                  THEN imageEffect(shown, annotations)
                  ELSE shown
     /\ before' = Snapshot
     /\ ret' = Settled("selectImage", idx, TRUE, "ok")
     /\ UNCHANGED <<projects, images, annotations, nextKey, deletePending,
                    otherTab, localStorage, now, pending, imagesPage>>

\* ------------------------------------------------------------------ inputs
ProjectIds == 1..(MaxProjects + 1)
ImageIds == 1..(MaxImages + 1)
AnnotationIds == 1..(MaxAnnotations + 1)

\* what the create form may hand to createProject
ProjectInputs ==
  { [name |-> "n1", description |-> Undefined, classes |-> <<>>],
    [name |-> "n2", description |-> "d1",
     classes |-> <<" ", "a", ",", ",", "b", " ">>],
    [name |-> "n1", description |-> "d1", classes |-> <<"b", ",", "a">>] }

ProjectUpdates ==
  { [name |-> "n3", description |-> Undefined, classes |-> UndefinedText],
    [name |-> Undefined, description |-> Null,
     classes |-> <<"c", ",", " ">>],
    [name |-> Undefined, description |-> Undefined,
     classes |-> UndefinedText] }

FileX == <<"x", ".", "j", "p", "g">>
FileXPng == <<"x", ".", "p", "n", "g">>
FileY == <<"y", ".", "J", "P", "G">>
FileNotes == <<"n", ".", "t", "x", "t">>
\* the path of y.JPG in the directory s
SubDirY == <<"s", "/">> \o FileY
FileNames == {FileX, FileXPng, FileY, FileNotes}

FileLists == {<<f>> : f \in FileNames} \cup {<<f, g>> : f, g \in FileNames}

AnnotationInputs ==
  { [class_id |-> 0, x_center |-> 100, y_center |-> 100, width |-> 50,
     height |-> 50],
    [class_id |-> 1, x_center |-> 50, y_center |-> 61, width |-> 20,
     height |-> 200],
    [class_id |-> 0, x_center |-> 100, y_center |-> 100, width |-> -50,
     height |-> 50] }

ThemeKey == <<"t", "h", "e", "m", "e">>
BareKey == <<"b", "b", "o", "x", "s", "t", "u", "d", "i", "o">>
\* `bboxstudio:project:${pid}:classColors`
colorsStorageKey(pid) ==
  KeyPrefix \o <<"p", "r", "o", "j", "e", "c", "t", ":">> \o NatToString(pid)
    \o <<":", "c", "l", "a", "s", "s", "C", "o", "l", "o", "r", "s">>
StorageKeys == {ThemeKey, BareKey, colorsStorageKey(1)}

\* ---------------------------------------------------------- specifications
NoCall == Settled("none", 0, TRUE, "ok")

Init ==
  /\ dbPromise = "null"
  /\ dbVersion = 0
  /\ objectStoreNames = {}
  /\ projects = EmptyStore
  /\ images = EmptyStore
  /\ annotations = EmptyStore
  /\ nextKey = FreshKeys
  /\ deletePending = FALSE
  /\ otherTab = FALSE
  /\ localStorage = <<>>
  /\ now = 0
  /\ page = AnnotatePageState(0)
  /\ pending = <<>>
  /\ imagesPage = ImagesPageState(0)
  /\ ret = NoCall
  /\ before = Snapshot

\* The project operations of the storage layer, ProjectList's clear-all,
\* a second tab and the clock.
NextProjects ==
  \/ getProjects
  \/ \E id \in ProjectIds : getProject(id)
  \/ \E data \in ProjectInputs : createProject(data)
  \/ \E id \in ProjectIds, data \in ProjectUpdates : updateProject(id, data)
  \/ \E id \in ProjectIds : deleteProject(id)
  \/ \E outcome \in {"success", "error", "blocked"} : clearAllLocalData(outcome)
  \/ OtherTabOpens
  \/ OtherTabCloses

SpecProjects == Init /\ [][NextProjects]_vars

\* Projects with their images and annotations: upload, annotate, and delete
\* with the cascade.
OneProject == {[name |-> "n1", description |-> Undefined, classes |-> <<"a">>]}
OneFile == {<<FileNotes, FileX>>}
TwoBoxes == {a \in AnnotationInputs : a.width > 0}
SignedBoxes == {a \in AnnotationInputs : a.class_id = 0}
OneBox == {a \in AnnotationInputs : a.class_id = 1}
OtherBox == {a \in AnnotationInputs : a.class_id = 0 /\ a.width > 0}

NextStore ==
  \/ \E data \in OneProject : createProject(data)
  \/ \E id \in 1..MaxProjects, files \in OneFile : uploadImages(id, files)
  \/ \E id \in DOMAIN images, data \in OneBox : createAnnotation(id, data)
  \/ \E id \in ProjectIds : deleteProject(id)

SpecStore == Init /\ [][NextStore]_vars

\* The four annotation operations of the storage layer.
NextAnnotations ==
  \/ \E id \in ImageIds : getAnnotations(id)
  \/ \E id \in 1..MaxImages, data \in TwoBoxes : createAnnotation(id, data)
  \/ \E id \in AnnotationIds, data \in OtherBox : updateAnnotation(id, data)
  \/ \E id \in AnnotationIds : deleteAnnotation(id)

SpecAnnotations == Init /\ [][NextAnnotations]_vars

\* What exportNeurova writes for projects with class lists, images and
\* annotations.
ClassLists == {data \in ProjectInputs : data.name = "n2" \/ data.classes = <<>>}
StemFiles == {<<FileX, FileXPng>>, <<FileY>>}

NextExport ==
  \/ \E data \in ClassLists : createProject(data)
  \/ \E id \in DOMAIN projects, files \in StemFiles : uploadImages(id, files)
  \/ \E id \in DOMAIN images, data \in OneBox : createAnnotation(id, data)
  \/ \E id \in ProjectIds : exportNeurova(id)

SpecExport == Init /\ [][NextExport]_vars

\* ProjectList's clear-all over stored projects, images, annotations and
\* localStorage keys, with a second tab that may hold the database open.
NextClear ==
  \/ getProjects
  \/ \E data \in OneProject : createProject(data)
  \/ \E files \in {<<FileX>>} : uploadImages(1, files)
  \/ \E data \in OneBox : createAnnotation(1, data)
  \/ \E outcome \in {"success", "error", "blocked"} : clearAllLocalData(outcome)
  \/ OtherTabOpens
  \/ OtherTabCloses
  \/ \E key \in StorageKeys : setItem(key)

SpecClear == Init /\ [][NextClear]_vars

\* The two pages that load a project and its images, over projects that may
\* have been deleted: mounting, uploading and folder import.
FolderPicks ==
  { [picker |-> "missing", entries |-> <<>>, transaction |-> "active"],
    [picker |-> "cancelled", entries |-> <<>>, transaction |-> "active"],
    [picker |-> "chosen", entries |-> <<FileNotes, SubDirY>>,
     transaction |-> "active"],
    [picker |-> "chosen", entries |-> <<FileNotes, SubDirY>>,
     transaction |-> "committed"] }
StorageReports == {"ok", "QuotaExceededError"}

NextPages ==
  \/ \E data \in OneProject : createProject(data)
  \/ \E id \in 1..MaxProjects : deleteProject(id)
  \/ \E pid \in 1..MaxProjects : ImagesPage_load(pid)
  \/ \E files \in {<<FileX>>}, storage \in StorageReports :
       ImagesPage_handleUpload(files, storage)
  \/ \E pick \in FolderPicks : ImagesPage_handleSelectFolder(pick)
  \/ \E pid \in 1..MaxProjects : AnnotatePage_loadProject(pid)
  \/ \E files \in {<<FileX>>}, storage \in StorageReports :
       AnnotatePage_handleFileUpload(files, storage)
  \/ \E pick \in FolderPicks : AnnotatePage_handleSelectFolder(pick)

SpecPages == Init /\ [][NextPages]_vars

\* Folder import from the two pages of one project, whose lists an upload
\* from the other page leaves behind.
NextFolder ==
  \/ \E data \in OneProject : projects = EmptyStore /\ createProject(data)
  \/ \E pid \in DOMAIN projects : ImagesPage_load(pid)
  \/ \E pid \in DOMAIN projects : AnnotatePage_loadProject(pid)
  \/ \E files \in {<<FileX>>} : ImagesPage_handleUpload(files, "ok")
  \/ \E files \in {<<FileX>>} : AnnotatePage_handleFileUpload(files, "ok")
  \/ \E pick \in FolderPicks : ImagesPage_handleSelectFolder(pick)
  \/ \E pick \in FolderPicks : AnnotatePage_handleSelectFolder(pick)

SpecFolder == Init /\ [][NextFolder]_vars

\* hitTestBoxIndex over lists of boxes, widths and heights of either sign.
HitBoxes ==
  { [id |-> 1, classId |-> 0, x |-> 60, y |-> 60, width |-> 60, height |-> 60],
    [id |-> 2, classId |-> 0, x |-> 120, y |-> 120, width |-> 60,
     height |-> 60],
    [id |-> 3, classId |-> 1, x |-> 120, y |-> 60, width |-> -60,
     height |-> 60],
    [id |-> 4, classId |-> 1, x |-> 180, y |-> 180, width |-> 60,
     height |-> -60] }
HitBoxLists ==
  UNION { [1..n -> HitBoxes] : n \in 0..MaxBoxes }
HitPoints == {30 * k : k \in 1..7}

\* AnnotatePage holding the boxes hitTestBoxIndex is applied to
InitHitTest ==
  /\ dbPromise = "null"
  /\ dbVersion = 0
  /\ objectStoreNames = {}
  /\ projects = EmptyStore
  /\ images = EmptyStore
  /\ annotations = EmptyStore
  /\ nextKey = FreshKeys
  /\ deletePending = FALSE
  /\ otherTab = FALSE
  /\ localStorage = <<>>
  /\ now = 0
  /\ \E boxes \in HitBoxLists :
       page = [AnnotatePageState(1) EXCEPT !.boxes = boxes]
  /\ pending = <<>>
  /\ imagesPage = ImagesPageState(0)
  /\ ret = NoCall
  /\ before = Snapshot

\* hitTestBoxIndex(x, y) is called
hitTest(x, y) ==
  /\ before' = Snapshot
  /\ ret' = Settled("hitTestBoxIndex", [x |-> x, y |-> y], TRUE,
                    hitTestBoxIndex(page.boxes, x, y))
  /\ UNCHANGED <<storeVars, localStorage, now, uiVars>>

NextHitTest == \E x \in HitPoints, y \in HitPoints : hitTest(x, y)

SpecHitTest == InitHitTest /\ [][NextHitTest]_vars

\* AnnotatePage's canvas: one project with two classes and one image, then
\* selecting, drawing and panning with the mouse.
TwoClasses == {data \in ProjectInputs : data.classes = <<"b", ",", "a">>}
PointerStep == [x |-> 240, y |-> 180]
Pointer(shiftKey, k) ==
  [shiftKey |-> shiftKey, clientX |-> k * PointerStep.x,
   clientY |-> k * PointerStep.y]
MouseEvents == {Pointer(s, k) : s \in BOOLEAN, k \in 0..1}

\* the pan stays within MaxPan pointer steps of the origin
panBounded(e) ==
  page.isPanning =>
    Abs(mouseMoveState(page, e).pan.x) <= MaxPan * PointerStep.x

\* the mouse events that find something to do: a move or a mouse up while
\* neither panning nor drawing returns at once
NextCanvas ==
  \/ \E data \in TwoClasses : projects = EmptyStore /\ createProject(data)
  \/ \E pid \in DOMAIN projects :
       page.projectId = 0 /\ AnnotatePage_loadProject(pid)
  \/ \E files \in {<<FileX>>} :
       images = EmptyStore /\ AnnotatePage_handleFileUpload(files, "ok")
  \/ \E e \in MouseEvents : handleMouseDown(e)
  \/ \E e \in MouseEvents :
       /\ ~e.shiftKey
       /\ page.isPanning \/ page.drawing
       /\ panBounded(e)
       /\ handleMouseMove(e)
  \/ (page.isPanning \/ page.drawing) /\ handleMouseUp
  \/ handleMouseUpResumes

SpecCanvas == Init /\ [][NextCanvas]_vars

\* Drawing on the canvas of one image under a zoom and a pan.  AnnotatePage
\* has loaded project 1 and its image; Zoom in or Zoom out was pressed up to
\* MaxZoom times, and a drag with the shift key moved the view by up to MaxPan
\* pointer steps, from or to the canvas corner.  The pointer is at the corner,
\* at three steps from it, and at the upper edge 8 pixels (0.01 of the canvas
\* width) further to the right; that one is used at zoom 1, where 8 pixels
\* are exactly 0.01.
Pans ==
  { [pan |-> [x |-> k * PointerStep.x, y |-> k * PointerStep.y],
     panPointerStartRef |-> IF k < 0
                              THEN [x |-> (0 - k) * PointerStep.x,
                                    y |-> (0 - k) * PointerStep.y]
                              ELSE [x |-> 0, y |-> 0]] :
      k \in (0 - MaxPan)..MaxPan }

InitDraw ==
  /\ dbPromise = "open"
  /\ dbVersion = DB_VERSION
  /\ objectStoreNames = AllStores
  /\ now = 0
  /\ nextKey = [FreshKeys EXCEPT !.projects = 2, !.images = 2]
  /\ projects = Put(EmptyStore, 1,
                    [createProjectRecord(CHOOSE d \in TwoClasses : TRUE)
                       EXCEPT !.id = 1])
  /\ images = Put(EmptyStore, 1,
                  [id |-> 1, project_id |-> 1, filename |-> FileX,
                   file_path |-> FileX, width |-> Null, height |-> Null,
                   created_at |-> 0, source |-> "blob"])
  /\ annotations = EmptyStore
  /\ deletePending = FALSE
  /\ otherTab = FALSE
  /\ localStorage = <<>>
  /\ \E z \in (0 - MaxZoom)..MaxZoom, view \in Pans :
       page = [loadProject(AnnotatePageState(1), images) EXCEPT
                 !.zoom = z, !.pan = view.pan,
                 !.panPointerStartRef = view.panPointerStartRef]
  /\ pending = <<>>
  /\ imagesPage = ImagesPageState(0)
  /\ ret = NoCall
  /\ before = Snapshot

NearPointer == [shiftKey |-> FALSE, clientX |-> 3 * PointerStep.x + 8,
                clientY |-> 0]
DrawPointers == {Pointer(FALSE, 0), Pointer(FALSE, 3), NearPointer}

NextDraw ==
  \/ \E e \in DrawPointers :
       /\ e = NearPointer => page.zoom = 0
       /\ handleMouseDown(e)
  \/ \E e \in DrawPointers :
       /\ e = NearPointer => page.zoom = 0
       /\ handleMouseMove(e)
  \/ handleMouseUp
  \/ handleMouseUpResumes

SpecDraw == InitDraw /\ [][NextDraw]_vars

\* AnnotatePage's keyboard: one project with two classes, uploads, boxes
\* drawn and selected with the mouse, the image list, and the keys.
Clicks == {Pointer(FALSE, k) : k \in 0..1}
Keys == {"Delete", "Backspace", "2", "3", "a"}

NextKeys ==
  \/ \E data \in TwoClasses : projects = EmptyStore /\ createProject(data)
  \/ Tick
  \/ \E pid \in DOMAIN projects : AnnotatePage_loadProject(pid)
  \/ \E files \in {<<FileX>>} : AnnotatePage_handleFileUpload(files, "ok")
  \/ \E e \in Clicks : handleMouseDown(e)
  \/ \E e \in Clicks : handleMouseMove(e)
  \/ handleMouseUp
  \/ handleMouseUpResumes
  \/ \E key \in Keys : onKeyDown(key)
  \/ handleDeleteBoxAtIndexResumes
  \/ \E idx \in 0..(MaxImages - 1) : selectImage(idx)

SpecKeys == Init /\ [][NextKeys]_vars

\* ImagesPage's selection over a project with MaxShown images on show.
\* ImagesPage has loaded project 1 and its images, all stored at time 0.
InitSelection ==
  /\ dbPromise = "open"
  /\ dbVersion = DB_VERSION
  /\ objectStoreNames = AllStores
  /\ now = 0
  /\ nextKey = [FreshKeys EXCEPT !.projects = 2, !.images = MaxShown + 1]
  /\ projects = Put(EmptyStore, 1,
                    [createProjectRecord(CHOOSE d \in OneProject : TRUE)
                       EXCEPT !.id = 1])
  /\ images = [k \in 1..MaxShown |->
                 [id |-> k, project_id |-> 1, filename |-> FileX,
                  file_path |-> FileX, width |-> Null, height |-> Null,
                  created_at |-> 0, source |-> "blob"]]
  /\ annotations = EmptyStore
  /\ deletePending = FALSE
  /\ otherTab = FALSE
  /\ localStorage = <<>>
  /\ page = AnnotatePageState(0)
  /\ pending = <<>>
  /\ imagesPage = ImagesPage_loadState(ImagesPageState(1), images)
  /\ ret = NoCall
  /\ before = Snapshot

NextSelection ==
  \/ \E imageId \in 1..MaxShown : toggleSelected(imageId)
  \/ clearSelection
  \/ selectToggle

SpecSelection == InitSelection /\ [][NextSelection]_vars

\* parseImageIds over the `ids` query parameter: null, every list of up to
\* MaxEntries entries, and the ids 1..7 with one more entry put in anywhere.
IdEntries ==
  { <<"1">>, <<" ", "2", " ">>, <<"2", ".", "0">>, <<"1", ".", "5">>,
    <<"-", "1">>, <<"0">>, <<>>, <<"a">>, InfinityText }
MoreIdEntries ==
  IdEntries \cup { <<"2">>, <<"0", "2">>, <<"+", "3">>, <<"1", " ", "2">> }
SevenIds == [k \in 1..(IdLimit + 1) |-> <<Digit(k)>>]
InsertAt(list, pos, e) ==
  SubSeq(list, 1, pos - 1) \o <<e>> \o SubSeq(list, pos, Len(list))
IdLists ==
  UNION { [1..n -> IdEntries] : n \in 0..MaxEntries }
    \cup { InsertAt(SevenIds, pos, e) :
             pos \in 1..(IdLimit + 2), e \in MoreIdEntries }
IdsParameters ==
  {None} \cup { Some(Join(list, <<",">>)) : list \in IdLists }

NextParse == \E value \in IdsParameters : parseImageIds(value)

SpecParse == Init /\ [][NextParse]_vars

\* --------------------------------------------------------------- claim C3
\* the ids of the projects getProjects resolves with
listedIds == {getProjectsResult[i].id : i \in 1..Len(getProjectsResult)}

\* `out` is a normalized class list: empty, or comma-separated names that are
\* non-empty and carry no leading or trailing whitespace
IsNormalized(out) ==
  \/ out = <<>>
  \/ \A i \in 1..Len(Split(out, ",")) :
       LET c == Split(out, ",")[i]
       IN c # <<>> /\ c[1] \notin Whitespace /\ c[Len(c)] \notin Whitespace

\* the characters of the class names, separators and whitespace dropped
NameChars(text) == SelectSeq(text, LAMBDA c : c \notin Whitespace /\ c # ",")

\* getProject(p) resolves with the name, description and classes of `data`
ReadsBack(p, data) ==
  /\ getProjectResult(p).ok
  /\ getProjectResult(p).data.name = data.name
  /\ getProjectResult(p).data.description = data.description
  /\ getProjectResult(p).data.classes = data.classes
  /\ p \in listedIds

\* right after createProject(data) returned id p
C3_AfterCreate ==
  (ret.op = "createProject" /\ ret.ok) =>
    /\ ret.data.name = ret.arg.name
    /\ ret.data.description = (IF ret.arg.description = Undefined
                                 THEN Null ELSE ret.arg.description)
    /\ IsNormalized(ret.data.classes)
    /\ NameChars(ret.data.classes) = NameChars(ret.arg.classes)
    /\ ReadsBack(ret.data.id, ret.data)

\* right after deleteProject(p) completed
C3_AfterDelete ==
  (ret.op = "deleteProject" /\ ret.ok) =>
    /\ ~getProjectResult(ret.arg).ok
    /\ getProjectResult(ret.arg).data = "Project not found"
    /\ ret.arg \notin listedIds

\* the last step left what getProject(p) and getProjects say of p alone
C3_Kept(p) ==
  /\ p \in DOMAIN projects
  /\ ReadsBack(p, before.projects[p])

\* the last step is a clearAllLocalData, or carries out the database deletion
\* one asked for
C3_Cleared ==
  \/ ret.op = "clearAllLocalData"
  \/ ret.op = "otherTabCloses" /\ before.deletePending

\* C3 as stated: after createProject(data) returned a project with id p,
\* getProject(p) returns the same name, description (null when omitted) and
\* normalized classes and getProjects contains it, for as long as
\* deleteProject(p) has not been called; after deleteProject(p) completed,
\* getProject(p) rejects with "Project not found" and getProjects does not
\* contain p.
C3_AsStated ==
  /\ C3_AfterCreate
  /\ C3_AfterDelete
  /\ \A p \in DOMAIN before.projects :
       \/ ret.op = "deleteProject" /\ ret.arg = p
       \/ C3_Kept(p)

\* C3 amended: the project reads back unchanged for as long as none of
\* deleteProject(p), updateProject(p, ...) and clearAllLocalData has been
\* called.
C3_CreateReadDelete ==
  /\ C3_AfterCreate
  /\ C3_AfterDelete
  /\ \A p \in DOMAIN before.projects :
       \/ ret.op \in {"deleteProject", "updateProject"} /\ ret.arg = p
       \/ C3_Cleared
       \/ C3_Kept(p)

\* a project that had been created was deleted while another one is kept
C3_Witness ==
  /\ ret.op = "deleteProject" /\ ret.ok
  /\ ret.arg \in DOMAIN before.projects
  /\ projects # EmptyStore

\* --------------------------------------------------------------- claim C1
\* the images that belonged to project id when the last step began
imagesOfBefore(id) ==
  {k \in DOMAIN before.images : before.images[k].project_id = id}

\* C1: after deleteProject(id) completed, the project store holds no project
\* with that id, the image store no image whose project_id is id, and the
\* annotation store no annotation of an image that belonged to the project;
\* the projects, images and annotations of every other project are unchanged.
C1_DeleteProjectCascade ==
  (ret.op = "deleteProject" /\ ret.ok) =>
    LET id == ret.arg
        gone == imagesOfBefore(ret.arg)
    IN /\ id \notin DOMAIN projects
       /\ \A k \in DOMAIN images : images[k].project_id # id
       /\ \A a \in DOMAIN annotations : annotations[a].image_id \notin gone
       /\ DOMAIN projects = DOMAIN before.projects \ {id}
       /\ \A p \in DOMAIN projects : projects[p] = before.projects[p]
       /\ DOMAIN images = DOMAIN before.images \ gone
       /\ \A k \in DOMAIN images : images[k] = before.images[k]
       /\ DOMAIN annotations =
            {a \in DOMAIN before.annotations :
               before.annotations[a].image_id \notin gone}
       /\ \A a \in DOMAIN annotations : annotations[a] = before.annotations[a]

\* a project with an annotated image was deleted while another project keeps
\* an annotated image of its own
C1_Witness ==
  /\ ret.op = "deleteProject" /\ ret.ok
  /\ ret.arg \in DOMAIN before.projects
  /\ \E a \in DOMAIN before.annotations :
       before.annotations[a].image_id \in imagesOfBefore(ret.arg)
  /\ \E a \in DOMAIN annotations :
       /\ annotations[a].image_id \in DOMAIN images
       /\ images[annotations[a].image_id].project_id \in DOMAIN projects

\* --------------------------------------------------------------- claim C4
\* the ids of the records getAnnotations(imageId) resolves with
annotationIds(imageId) ==
  {getAnnotationsResult(imageId)[i].id :
     i \in 1..Len(getAnnotationsResult(imageId))}

\* every image id a getAnnotations call may name
queriedImages ==
  ImageIds \cup {annotations[a].image_id : a \in DOMAIN annotations}

\* C4: after createAnnotation(imageId, data) returned an annotation with id
\* a, getAnnotations(imageId) contains exactly one record with id a, carrying
\* the given class_id, x_center, y_center, width and height, and
\* getAnnotations of any other image does not contain it; after
\* deleteAnnotation(a) completed no getAnnotations result contains id a, and
\* deleting an id that does not exist succeeds and changes nothing.
C4_AnnotationRoundTrip ==
  /\ (ret.op = "createAnnotation" /\ ret.ok) =>
       LET a == ret.data.id
           imageId == ret.arg.image_id
           data == ret.arg.data
           found == SelectSeq(getAnnotationsResult(imageId),
                              LAMBDA r : r.id = a)
       IN /\ Len(found) = 1
          /\ found[1].class_id = data.class_id
          /\ found[1].x_center = data.x_center
          /\ found[1].y_center = data.y_center
          /\ found[1].width = data.width
          /\ found[1].height = data.height
          /\ \A other \in queriedImages \ {imageId} :
               a \notin annotationIds(other)
  /\ (ret.op = "deleteAnnotation") =>
       /\ ret.ok
       /\ \A imageId \in queriedImages : ret.arg \notin annotationIds(imageId)
       /\ ret.arg \notin DOMAIN before.annotations =>
            annotations = before.annotations

\* an annotation was created on an image while another image holds one too
C4_Witness ==
  /\ ret.op = "createAnnotation" /\ ret.ok
  /\ \E a \in DOMAIN annotations :
       annotations[a].image_id # ret.arg.image_id

\* --------------------------------------------------------------- claim C5
\* the paths of the zip that lie under labels/
labelFiles(zip) == {f \in DOMAIN zip : StartsWith(f, LabelsDir)}

\* the lines of a text in which every line ends with a newline
Lines(text) ==
  LET parts == Split(text, "\n") IN SubSeq(parts, 1, Len(parts) - 1)

\* 'class_id x_center y_center width height'
WrittenAs(line, a) ==
  Split(line, " ") = <<NatToString(a.class_id), NumberToString(a.x_center),
                       NumberToString(a.y_center), NumberToString(a.width),
                       NumberToString(a.height)>>

\* the images of project p that have at least one annotation
annotatedImages(p) ==
  {k \in DOMAIN images :
     /\ images[k].project_id = p
     /\ \E a \in DOMAIN annotations : annotations[a].image_id = k}

\* the lines of `text` are exactly the annotations of image k, one per line
HoldsLabelsOf(text, k) ==
  LET anns == {a \in DOMAIN annotations : annotations[a].image_id = k}
  IN /\ text # <<>> /\ Last(text) = "\n"
     /\ Len(Lines(text)) = Cardinality(anns)
     /\ \A a \in anns :
          \E i \in 1..Len(Lines(text)) : WrittenAs(Lines(text)[i], annotations[a])
     /\ \A i \in 1..Len(Lines(text)) :
          \E a \in anns : WrittenAs(Lines(text)[i], annotations[a])

\* C5 as stated: the zip produced by exportNeurova(projectId) contains, for
\* every image of the project that has at least one annotation, a per-image
\* label file under labels/ whose lines are exactly that image's annotations
\* written as 'class_id x_center y_center width height', one per line; images
\* of the project without annotations have no label file, and no annotation
\* of another project appears.
C5_AsStated ==
  (ret.op = "exportNeurova" /\ ret.ok) =>
    \E fileOf \in [annotatedImages(ret.arg) -> labelFiles(ret.data)] :
      /\ \A k, m \in annotatedImages(ret.arg) : fileOf[k] = fileOf[m] => k = m
      /\ \A f \in labelFiles(ret.data) :
           \E k \in annotatedImages(ret.arg) : fileOf[k] = f
      /\ \A k \in annotatedImages(ret.arg) :
           HoldsLabelsOf(ret.data[fileOf[k]], k)

\* --------------------------------------------------------------- claim C6
\* C6: the zip produced by exportNeurova(projectId) contains a classes.txt
\* that lists the project's class names in their stored order, one per line,
\* each terminated by a newline, and that is empty when the project has no
\* classes; exportNeurova rejects with 'Project not found' when no project
\* has that id.
C6_ClassesTxt ==
  (ret.op = "exportNeurova") =>
    IF ret.arg \in DOMAIN projects
      THEN /\ ret.ok
           /\ ClassesTxt \in DOMAIN ret.data
           /\ IF projects[ret.arg].classes = <<>>
                THEN ret.data[ClassesTxt] = <<>>
                ELSE Split(ret.data[ClassesTxt], "\n") =
                       Split(projects[ret.arg].classes, ",") \o << <<>> >>
      ELSE ~ret.ok /\ ret.data = "Project not found"

\* a project with two classes and an annotated image was exported
C6_Witness ==
  /\ ret.op = "exportNeurova" /\ ret.ok
  /\ Len(Split(projects[ret.arg].classes, ",")) = 2
  /\ labelFiles(ret.data) # {}

\* --------------------------------------------------------------- claim C7
\* C7 as stated: after clearAllLocalData resolved, all projects, images and
\* annotations saved in the browser are removed (a getProjects that follows
\* waits for a deletion still pending, and then finds the stores empty),
\* every localStorage key starting with 'bboxstudio:' is removed, and every
\* other localStorage key is left unchanged.
C7_AsStated ==
  (ret.op = "clearAllLocalData") =>
    /\ \/ deletePending
       \/ /\ projects = EmptyStore
          /\ images = EmptyStore
          /\ annotations = EmptyStore
          /\ getProjectsResult = <<>>
    /\ \A i \in 1..Len(localStorage) : ~StartsWith(localStorage[i], KeyPrefix)
    /\ localStorage =
         SelectSeq(before.localStorage, LAMBDA k : ~StartsWith(k, KeyPrefix))

\* --------------------------------------------------------------- claim C2
PageHandlers ==
  {"ImagesPage.load", "ImagesPage.handleUpload",
   "ImagesPage.handleSelectFolder", "AnnotatePage.loadProject",
   "AnnotatePage.handleFileUpload", "AnnotatePage.handleSelectFolder"}

\* C2 (as stated): a page handler whose storage calls all resolved shows no
\* error; one in which a storage call rejected shows the user exactly one
\* error, leaves no rejection without a handler, and does not leave
\* ImagesPage showing "Loading…".
C2_AsStated ==
  ret.op \in PageHandlers =>
    IF ret.ok
      THEN ret.data.alerts = <<>>
      ELSE /\ Len(ret.data.alerts) = 1
           /\ ret.data.unhandled = 0
           /\ ret.op \in {"ImagesPage.load", "ImagesPage.handleUpload"}
                => ~imagesPage.loading

\* --------------------------------------------------------------- claim C8
\* the point (x, y) lies in the rectangle with the corners (b.x, b.y) and
\* (b.x + b.width, b.y + b.height), its bounds included
Inside(b, x, y) ==
  /\ \/ b.x <= x /\ x <= b.x + b.width
     \/ b.x + b.width <= x /\ x <= b.x
  /\ \/ b.y <= y /\ y <= b.y + b.height
     \/ b.y + b.height <= y /\ y <= b.y

\* the indices, counted from 0, of the boxes that hold the point
boxesHolding(boxes, x, y) ==
  {i \in 0..(Len(boxes) - 1) : Inside(boxes[i + 1], x, y)}

\* C8: hitTestBoxIndex(x, y) returns the highest index of a box whose
\* rectangle holds (x, y), bounds included and a negative width or height
\* read as the same rectangle, and null when no box holds the point.
C8_HitTest ==
  ret.op = "hitTestBoxIndex" =>
    LET holding == boxesHolding(before.page.boxes, ret.arg.x, ret.arg.y)
    IN IF holding = {}
         THEN ret.data = None
         ELSE /\ ret.data # None
              /\ ret.data[1] \in holding
              /\ \A j \in holding : j <= ret.data[1]

\* a point on the bounds of two boxes, the upper one of negative width
C8_Witness ==
  /\ ret.op = "hitTestBoxIndex"
  /\ Len(before.page.boxes) = 2
  /\ before.page.boxes[2].width < 0
  /\ ret.arg.x = before.page.boxes[2].x
  /\ boxesHolding(before.page.boxes, ret.arg.x, ret.arg.y) = {0, 1}
  /\ ret.data = Some(1)

\* --------------------------------------------------------------- claim C9
\* the boxes of page state p under the pointer of mouse event e
underPointer(p, e) ==
  boxesHolding(p.boxes, getCanvasCoordinates(p, e).x,
               getCanvasCoordinates(p, e).y)

C9_MouseDown ==
  ret.op = "handleMouseDown" =>
    LET old == before.page
        under == underPointer(old, ret.arg)
    IN IF ret.arg.shiftKey
         THEN /\ page.isPanning
              /\ page.selectedBox = old.selectedBox
              /\ page.drawing = old.drawing
              /\ page.currentBox = old.currentBox
       ELSE IF under # {}
         THEN /\ page.selectedBox # None
              /\ page.selectedBox[1] \in under
              /\ \A j \in under : j <= page.selectedBox[1]
              /\ page.drawing = old.drawing
              /\ page.currentBox = old.currentBox
              /\ page.isPanning = old.isPanning
       ELSE /\ page.selectedBox = None
            /\ page.drawing
            /\ page.currentBox # None
            /\ page.currentBox[1].classId = old.selectedClassId
            /\ page.currentBox[1].x = getCanvasCoordinates(old, ret.arg).x
            /\ page.currentBox[1].y = getCanvasCoordinates(old, ret.arg).y
            /\ page.isPanning = old.isPanning

C9_PanEnds ==
  ret.op = "handleMouseUp" /\ before.page.isPanning =>
    /\ ~page.isPanning
    /\ pending = before.pending
    /\ annotations = before.annotations
    /\ page.boxes = before.page.boxes

\* C9: a mouse down without Shift on a point inside a box selects the topmost
\* box under it and starts no drawing; one on a point inside no box clears
\* the selection and starts a drawing of the selected class; a mouse down
\* with Shift starts panning and neither selects nor draws; the mouse up that
\* ends panning creates no annotation.
C9_MouseDownAndPan == C9_MouseDown /\ C9_PanEnds

\* a click on a point that two boxes hold selected the upper one, and no
\* drawing began
C9_Witness ==
  /\ ret.op = "handleMouseDown"
  /\ ~ret.arg.shiftKey
  /\ underPointer(before.page, ret.arg) = {0, 1}
  /\ before.page.selectedBox # Some(1)
  /\ page.selectedBox = Some(1)
  /\ ~page.drawing

\* -------------------------------------------------------------- claim C10
DigitKeys == <<"1", "2", "3", "4", "5", "6", "7", "8", "9">>

C10_Digits ==
  \A n \in 1..9 :
    ret.op = "onKeyDown" /\ ret.arg = DigitKeys[n] =>
      page.selectedClassId =
        IF n - 1 < Len(classesOf(before.page))
          THEN n - 1
          ELSE before.page.selectedClassId

\* Delete or Backspace with a box selected starts the removal of that box
\* and of nothing else; with no box selected it does nothing
C10_DeletePressed ==
  ret.op = "onKeyDown" /\ ret.arg \in {"Delete", "Backspace"} =>
    LET old == before.page
    IN /\ page = old
       /\ annotations = before.annotations
       /\ IF old.selectedBox # None /\ old.selectedBox[1] < Len(old.boxes)
            THEN pending =
                   Append(before.pending,
                          [call |-> "deleteAnnotation",
                           idx |-> old.selectedBox[1],
                           id |-> old.boxes[old.selectedBox[1] + 1].id])
            ELSE pending = before.pending

\* the removal, once the storage call has resolved, took the box the key was
\* pressed for out of the list and out of the store, and took nothing else
C10_Deleted ==
  ret.op = "handleDeleteBoxAtIndex.deleteAnnotation" =>
    /\ page.boxes = SelectSeq(before.page.boxes, LAMBDA b : b.id # ret.arg.id)
    /\ DOMAIN annotations = DOMAIN before.annotations \ {ret.arg.id}

\* C10 (as stated): a key '1'..'9' sets the selected class to index key-1
\* when that is below the number of classes and leaves it unchanged
\* otherwise; Delete or Backspace deletes the selected box, its list entry
\* and its stored annotation, when a box is selected and does nothing
\* otherwise.
C10_AsStated == C10_Digits /\ C10_DeletePressed /\ C10_Deleted

\* -------------------------------------------------------------- claim C11
\* C11: selectedIds never holds an id twice nor more than 6 ids; toggling a
\* selected id removes it, toggling an unselected id while 6 are selected
\* changes nothing, and the select-mode toggle empties the selection.
C11_Selection ==
  LET ids == imagesPage.selectedIds
      old == before.imagesPage.selectedIds
  IN /\ \A i, j \in 1..Len(ids) : ids[i] = ids[j] => i = j
     /\ Len(ids) <= 6
     /\ ret.op = "toggleSelected" /\ (\E i \in 1..Len(old) : old[i] = ret.arg)
          => /\ \A i \in 1..Len(ids) : ids[i] # ret.arg
             /\ ids = SelectSeq(old, LAMBDA id : id # ret.arg)
     /\ ret.op = "toggleSelected" /\ Len(old) = 6
          /\ (\A i \in 1..Len(old) : old[i] # ret.arg)
          => ids = old
     /\ ret.op = "selectToggle"
          => /\ ids = <<>>
             /\ imagesPage.selectMode = ~before.imagesPage.selectMode
     /\ ret.op = "clearSelection" => ids = <<>>

\* an unselected image was toggled while six were selected
C11_Witness ==
  /\ ret.op = "toggleSelected"
  /\ Len(before.imagesPage.selectedIds) = 6
  /\ \A i \in 1..6 : before.imagesPage.selectedIds[i] # ret.arg
  /\ Len(imagesPage.selectedIds) = 6

\* -------------------------------------------------------------- claim C12
\* the entries of the text that are finite positive numbers, in their order
\* (an entry counts by the number it denotes: "02", " 2 " and "2.0" are 2)
positiveEntries(value) ==
  LET parts == Split(value, ",")
  IN SelectSeq([i \in 1..Len(parts) |-> Number(parts[i])],
               LAMBDA n : n.kind = "finite" /\ n.tenths > 0)

\* where a number first occurs in a sequence that holds it
firstAt(seq, v) == CHOOSE i \in 1..Len(seq) :
                     seq[i] = v /\ \A j \in 1..(i - 1) : seq[j] # v

\* C12: parseImageIds returns the finite positive numbers of the
\* comma-separated input, each once, in the order of their first occurrence,
\* and no more than the first 6 distinct ones; null and the empty string give
\* the empty list.
C12_ParseImageIds ==
  ret.op = "parseImageIds" =>
    LET out == ret.data
        nums == IF ret.arg = None THEN <<>> ELSE positiveEntries(ret.arg[1])
    IN /\ Len(out) <= 6
       /\ \A i \in 1..Len(out) : includes(nums, out[i])
       /\ \A i, j \in 1..Len(out) :
            i < j => firstAt(nums, out[i]) < firstAt(nums, out[j])
       /\ \A k \in 1..Len(nums) :
            \/ includes(out, nums[k])
            \/ /\ Len(out) = 6
               /\ firstAt(nums, out[6]) < firstAt(nums, nums[k])
       /\ ret.arg = None \/ ret.arg = Some(<<>>) => out = <<>>

\* eight positive entries, one of the first six a repeat, the seventh id cut
C12_Witness ==
  /\ ret.op = "parseImageIds"
  /\ ret.arg # None
  /\ Len(ret.data) = 6
  /\ Len(Split(ret.arg[1], ",")) = 8
  /\ Len(positiveEntries(ret.arg[1])) = 8
  /\ \E k \in 1..8 : ~includes(ret.data, positiveEntries(ret.arg[1])[k])
  /\ \E i, j \in 1..6 : i < j /\ positiveEntries(ret.arg[1])[i]
                                   = positiveEntries(ret.arg[1])[j]

\* -------------------------------------------------------------- claim C13
MissingPicks == {pick \in FolderPicks : pick.picker = "missing"}

\* C13: when window.showDirectoryPicker is unavailable, handleSelectFolder of
\* ImagesPage and of AnnotatePage shows the one alert "Folder import requires
\* Chrome/Edge (File System Access API)", the rejection of
\* importImagesFromFolder, which opened no connection or transaction and left
\* every store as it was, and the page does not reload its image list.
C13_PickerMissing ==
  [][\A pick \in MissingPicks :
       ImagesPage_handleSelectFolder(pick)
         \/ AnnotatePage_handleSelectFolder(pick)
       => /\ ~ret'.ok
          /\ ret'.data = Outcome(
               <<"Folder import requires Chrome/Edge (File System Access API)">>,
               0)
          /\ UNCHANGED <<dbPromise, dbVersion, objectStoreNames, projects,
                         images, annotations, nextKey>>
          /\ imagesPage' = imagesPage
          /\ page' = page]_vars

\* ImagesPage showed the alert while its list was behind the stored images
C13_Witness ==
  /\ ret.op = "ImagesPage.handleSelectFolder"
  /\ ret.data.alerts
       = <<"Folder import requires Chrome/Edge (File System Access API)">>
  /\ imagesPage # ImagesPage_loadState(imagesPage, images)

\* -------------------------------------------------------------- claim C14
\* the mouse up found a drawing to end
endsDrawing ==
  /\ ret.op = "handleMouseUp"
  /\ ~before.page.isPanning
  /\ before.page.drawing
  /\ before.page.currentBox # None

\* v is more than 0.01 of the image from 0
overHundredth(v) == v * 100 > Unit \/ v * 100 < 0 - Unit

\* C14: the mouse up that ends a drawing calls createAnnotation if and only
\* if the drawn width and height are both over 0.01 in size; the annotation
\* created has a positive width and height and lies in the unit square:
\* 0 <= x_center - width/2, x_center + width/2 <= 1, and so for y and height.
C14_Created ==
  /\ endsDrawing =>
       (Len(pending) = Len(before.pending) + 1
          <=> /\ overHundredth(before.page.currentBox[1].width)
              /\ overHundredth(before.page.currentBox[1].height))
  /\ endsDrawing => Len(pending) \in {Len(before.pending),
                                      Len(before.pending) + 1}
  /\ ret.op = "handleMouseUp.createAnnotation" =>
       /\ ret.data.id \in DOMAIN annotations
       /\ annotations[ret.data.id] = ret.data
       /\ ret.data.width > 0
       /\ ret.data.height > 0
       /\ 0 <= 2 * ret.data.x_center - ret.data.width
       /\ 2 * ret.data.x_center + ret.data.width <= 2 * Unit
       /\ 0 <= 2 * ret.data.y_center - ret.data.height
       /\ 2 * ret.data.y_center + ret.data.height <= 2 * Unit

\* a drag up and to the left, under a zoom and a pan, became an annotation
\* that reaches the right and lower edges
C14_Witness ==
  /\ ret.op = "handleMouseUp.createAnnotation"
  /\ before.page.currentBox # None
  /\ before.page.currentBox[1].width < 0
  /\ before.page.currentBox[1].height < 0
  /\ before.page.zoom # 0
  /\ before.page.pan.x # 0
  /\ 2 * ret.data.x_center + ret.data.width = 2 * Unit

\* -------------------------------------------------------------- claim C15
\* C15: a drawing gesture creates at most one annotation and adds at most
\* one box.  A mouse up (or mouse leave) calls createAnnotation only when it
\* finds a drawing, which it ends, and then once; only a mouse down begins a
\* drawing; a second mouse up or a mouse leave while the call is pending
\* changes nothing; and the call that resolves stores one annotation and
\* leaves the list with at most one box more.
C15_OnePerGesture ==
  /\ ret.op = "handleMouseUp" =>
       /\ pending # before.pending =>
            /\ before.page.drawing
            /\ ~page.drawing
            /\ pending = Append(before.pending, pending[Len(pending)])
       /\ ~before.page.drawing =>
            /\ pending = before.pending
            /\ page.boxes = before.page.boxes
  /\ page.drawing /\ ~before.page.drawing => ret.op = "handleMouseDown"
  /\ annotations # before.annotations \/ page.boxes # before.page.boxes =>
       /\ ret.op = "handleMouseUp.createAnnotation"
       /\ Len(pending) = Len(before.pending) - 1
       /\ Cardinality(DOMAIN annotations)
            = Cardinality(DOMAIN before.annotations) + 1
       /\ Len(page.boxes) <= Len(before.page.boxes) + 1

\* a second mouse up, or a mouse leave, while createAnnotation was pending
\* and the drawn box still set
C15_Witness ==
  /\ ret.op = "handleMouseUp"
  /\ before.pending # <<>>
  /\ before.pending[1].call = "createAnnotation"
  /\ ~before.page.drawing
  /\ before.page.currentBox # None
  /\ pending = before.pending

====
